---- MODULE Spec2Model ----
(***************************************************************************)
(* Training-loop orchestration of composer.trainer.Trainer:  fit(), the    *)
(* per-batch algorithm _train_batch()/_train_batch_inner(), _epoch_end(),  *)
(* and the open/closed life cycle of the engine.                           *)
(*                                                                         *)
(* One trainer is modelled.  A behaviour is a sequence of calls to fit()   *)
(* made by the caller; between two calls the trainer is at pc = "idle".    *)
(* Inside a call, pc is the position of control in fit().  When pc is the  *)
(* name of an event, the next step delivers that event to the extensions,  *)
(* so the state at such a pc is the state the handlers observe.            *)
(*                                                                         *)
(* Spec     : a trainer without checkpoints, after its construction.       *)
(* SpecCk   : trainers that save checkpoints and evaluate; the constructor *)
(*            is run step by step, a new trainer may be constructed from   *)
(*            the checkpoint last saved (Reload), and the user may call    *)
(*            eval() between two calls of fit().                           *)
(* SpecLoss : the loss accumulation of _train_batch_inner() over the       *)
(*            microbatches of one batch.                                   *)
(* SpecDdp  : the batches of a distributed run, one trainer per worker in  *)
(*            lock-step: precision and gradient scaling, the optimizer     *)
(*            step, the synchronization of gradients, the collectives.     *)
(* SpecDs   : a trainer on the DeepSpeed backend, from its constructor on, *)
(*            whose checkpoint interval unit may be set between calls.     *)
(* SpecSeed : the seed of the run, lines 184-192 of the constructor.       *)
(* SpecSub  : a trainer whose steps_per_epoch may be changed between       *)
(*            epochs (setter of train_subset_num_batches).                 *)
(* SpecEval : a trainer whose user calls eval() between calls of fit();    *)
(*            the evaluation pass is run event by event.                   *)
(***************************************************************************)
EXTENDS Integers, Sequences, FiniteSets, TLC

\* ---- bounds of the model ------------------------------------------------
MaxEpochsBound == 2     \* max_epochs ranges over 0..MaxEpochsBound
MaxSteps == 2           \* steps_per_epoch ranges over 1..MaxSteps, the loader yields at most as many
MaxGradAccum == 1       \* grad_accum ranges over 1..MaxGradAccum
MaxNumBatches == 3      \* fit(num_batches = n), n in 0..MaxNumBatches
MaxNumEpochs == 2       \* fit(num_epochs = k), k in 0..MaxNumEpochs
MaxInterval == 1        \* checkpoint_interval ranges over 1..MaxInterval
MaxValidate == 2        \* validate_every_n_epochs and validate_every_n_batches: -1 or MaxValidate
MaxMicrobatches == 2    \* number of microbatches of a batch, 1..MaxMicrobatches
MaxMicrobatchSize == 2  \* samples of a microbatch, 1..MaxMicrobatchSize
MaxLoss == 1            \* loss of a sample, 0..MaxLoss
MaxWorkers == 2         \* number of worker processes of a distributed run
MaxSeed == 10            \* seeds range over 0..MaxSeed
MaxEvalBatches == 2     \* evaluation batches of a pass

\* state.epoch is kept within EpochCap: fit(num_epochs = k) is only called
\* with state.epoch + k <= EpochCap
EpochCap == MaxEpochsBound + 1

\* ---- program constants --------------------------------------------------
INF == 1000000          \* float('inf'), the default of max_step
NONE == -1              \* an argument of fit() that was not passed

VARIABLES
    closed,             \* engine.closed
    epoch,              \* state.epoch
    step,               \* state.step
    batch,              \* state.batch: the batch last pulled, NoBatch before
    max_epochs,         \* state.max_epochs
    steps_per_epoch,    \* state.steps_per_epoch
    grad_accum,         \* state.grad_accum
    iter,               \* self._train_dataloader_iterator
    max_step,           \* local of fit()
    max_epoch,          \* local of fit()
    microbatch_idx,     \* loop variable of _train_batch_inner
    pc,                 \* position of control
    result,             \* how the last call to fit() ended; the life-cycle error of
                        \* an eval() called after it
    lastEvent,          \* the event last delivered by engine.run_event
    evBit,              \* parity of the number of events delivered so far
    loaderLen,          \* number of batches the train dataloader yields per pass
    skipPos,            \* loader positions at which an extension raises BreakEpochException
    sumNb,              \* history: sum of num_batches over the calls that entered
                        \*          the loop; NONE once one of them was not
                        \*          fit(num_batches = n) or the sum left the budget
    call,               \* history: the last such call, and where it started
    trained,            \* history: batches handed to _train_batch, in order
    skipEpochs,         \* history: epochs whose iterator saw a caught BreakEpochException
    stopped,            \* history: the inner loop of this iteration ended by StopIteration
    checkpoint_interval_unit,   \* "none", "ep" or "it"
    checkpoint_interval,        \* the interval of the checkpointer
    validate_every_n_epochs,    \* -1 disables the evaluation at epoch end
    checkpoint_loader,  \* self.checkpoint_loader is not None
    loaded,             \* the checkpoint this trainer was constructed from, NoCkpt if none
    ckpt,               \* the checkpoint last saved, NoCkpt before
    rngRestores,        \* history: calls of restore_checkpoint_rng_state by this trainer
    discarded,          \* history: batches discarded by the replay, NONE before
    nInit,              \* history: INIT events delivered by this trainer
    optimizers,         \* state.optimizers and state.schedulers were created
    nStarts,            \* history: EPOCH_START events delivered by this trainer
    nEnds,              \* history: EPOCH_END events delivered by this trainer
    ops,                \* history: what the last _epoch_end() did, in order
    bevents,            \* history: events delivered for the batch being trained
    microbatches,       \* the microbatches of _train_batch_inner: per-sample losses
    total_loss,         \* the accumulator of _train_batch_inner, a fraction
    validate_every_n_batches,   \* -1 disables the evaluation after a batch
    precision,          \* state.precision: "FP32", "FP16" or "AMP"
    deepspeed_enabled,  \* self.deepspeed_enabled
    scaler_enabled,     \* state.scaler.is_enabled(): the backend supports gradient scaling
    amp_closure,        \* the optimizer has _step_supports_amp_closure
    grad_clip_norm,     \* self._grad_clip_norm is not None
    strategy_arg,       \* the argument ddp_sync_strategy of the constructor, "None" if not passed
    algorithms,         \* state.algorithms, each algorithm by its kind
    ddp_sync_strategy,  \* self.ddp_sync_strategy, "unset" before it is assigned
    scaler,             \* class of state.scaler, "unset" before it is assigned
    ddp_sync,           \* argument ddp_sync of the running _train_batch_inner
    grads_inf,          \* per worker: the accumulated gradients hold an inf or a nan
    found_inf,          \* per worker: what unscale_ recorded for the optimizer
    params,             \* per worker: number of optimizer steps applied to the parameters
    backoffs,           \* per worker: times the scaler update reduced the scale factor
    loss_none,          \* per worker: total_loss of _train_batch is None
    collectives,        \* per worker, history: blocking collectives issued for this batch
    synced,             \* history: microbatches whose backward pass synchronized gradients
    start,              \* history: step, params and backoffs when the batch began
    seed_arg,           \* the argument seed of the constructor, NONE if not passed
    seed,               \* the local seed of the constructor
    generators,         \* what seed_all seeded the generators with, NONE before
    trainer_seed,       \* self.seed, the seed stored in checkpoints, NONE before
    tail_ops,           \* history: what _train_batch did from the optimizer step on
    grads,              \* the batches whose backward passes the gradients hold
    leftover,           \* history: the gradients the last zero_grad cleared
    training,           \* model.training: the model is in training mode
    restore_model_train,        \* the local of eval(): the mode found on entry, TRUE
                                \* when no pass is under way
    eval_subset_num_batches,    \* batches an evaluation pass takes from the eval dataloader
    eval_idx,           \* index of the evaluation batch under way
    evlog               \* history: events delivered by the running eval()

vars == <<closed, epoch, step, batch, max_epochs, steps_per_epoch, grad_accum,
          iter, max_step, max_epoch, microbatch_idx, pc, result, lastEvent,
          evBit, loaderLen, skipPos, sumNb, call, trained,
          skipEpochs, stopped, checkpoint_interval_unit, checkpoint_interval,
          validate_every_n_epochs, checkpoint_loader, loaded, ckpt, rngRestores,
          discarded, nInit, optimizers, nStarts, nEnds, ops, bevents,
          microbatches, total_loss, validate_every_n_batches, precision,
          deepspeed_enabled, scaler_enabled, amp_closure, grad_clip_norm,
          strategy_arg, algorithms, ddp_sync_strategy, scaler, ddp_sync,
          grads_inf, found_inf, params, backoffs, loss_none, collectives, synced,
          start, seed_arg, seed, generators, trainer_seed, tail_ops, grads, leftover,
          training, restore_model_train, eval_subset_num_batches, eval_idx, evlog>>

cfgVars == <<max_epochs, steps_per_epoch, grad_accum, loaderLen, skipPos,
             checkpoint_interval_unit, checkpoint_interval, validate_every_n_epochs,
             validate_every_n_batches>>

\* the checkpoint loader and what it did
ckVars == <<checkpoint_loader, loaded, rngRestores, discarded>>

\* construction of the trainer
ctorVars == <<nInit, optimizers>>

\* loss accumulation over the microbatches of one batch
lossVars == <<microbatches, total_loss>>

\* the seed of the run
seedVars == <<seed_arg, seed, generators, trainer_seed>>

\* what the loops of fit() and of a batch leave alone
\* the gradients of the parameters the optimizers hold
gradVars == <<grads, leftover>>

\* the mode of the model and the evaluation pass
evalVars == <<training, restore_model_train, eval_subset_num_batches, eval_idx, evlog>>

otherVars == <<seedVars, tail_ops, gradVars, evalVars>>

\* precision, gradient scaling and the workers of a distributed run
ampVars == <<precision, deepspeed_enabled, scaler_enabled, amp_closure,
             grad_clip_norm, strategy_arg>>

ddpVars == <<algorithms, ddp_sync_strategy, scaler, ddp_sync, grads_inf,
             found_inf, params, backoffs, loss_none, collectives, synced, start>>

NoBatch == [e |-> -1, p |-> -1]
NoIter == [set |-> FALSE, e |-> 0, pos |-> 0, limit |-> 0]
NoCall == [nb |-> NONE, ne |-> NONE, step0 |-> 0, epoch0 |-> 0, trained0 |-> 0,
           ends0 |-> 0]
NoCkpt == [saved |-> FALSE, epoch |-> 0, step |-> 0, it |-> NoIter]
Zero == [n |-> 0, d |-> 1]

\* the worker processes; each runs one trainer, in lock-step with the others
Workers == 1..MaxWorkers

NoWorker == [w \in Workers |-> FALSE]
NoCount == [w \in Workers |-> 0]
NoLog == [w \in Workers |-> <<>>]
NoStart == [step |-> 0, params |-> NoCount, backoffs |-> NoCount]

Min(a, b) == IF a < b THEN a ELSE b

\* state.batch_idx: the position within the current epoch
BatchIdx(st, ep, spe) == st - ep * spe

batch_idx == BatchIdx(step, epoch, steps_per_epoch)

\* itertools.islice(train_dataloader, steps_per_epoch): a fresh bounded iterator
NewIter(ep, spe) == [set |-> TRUE, e |-> ep, pos |-> 0, limit |-> spe]

\* next() on the bounded iterator raises StopIteration
Exhausted(it, len) == it.pos >= Min(it.limit, len)

\* ---- events -------------------------------------------------------------
MicrobatchEvents == <<"BEFORE_FORWARD", "AFTER_FORWARD", "BEFORE_LOSS",
                      "AFTER_LOSS", "BEFORE_BACKWARD", "AFTER_BACKWARD">>

BatchEvents == {"AFTER_DATALOADER", "BATCH_START", "BEFORE_TRAIN_BATCH",
                "AFTER_TRAIN_BATCH", "BATCH_END"}
               \cup {MicrobatchEvents[i] : i \in 1..Len(MicrobatchEvents)}

LoopEvents == {"EPOCH_START", "EPOCH_END", "TRAINING_END"}

EventPcs == BatchEvents \cup LoopEvents

\* positions inside the try block of fit()
TryPcs == EventPcs \cup {"loop", "next", "step", "tail", "after_inner",
                         "eval_epoch", "epoch_inc"}

\* a model in training mode, no evaluation pass under way
NoEval ==
    /\ training = TRUE
    /\ restore_model_train = TRUE
    /\ eval_subset_num_batches = MaxEvalBatches
    /\ eval_idx = 0
    /\ evlog = <<>>

\* the caller passed a seed and the constructor took it
SeedGiven ==
    /\ seed_arg = 1
    /\ seed = seed_arg
    /\ generators = seed_arg
    /\ trainer_seed = seed_arg

\* full precision on one backend; gradient scaling and the synchronization of
\* the workers play no part
NoAmp ==
    /\ precision = "FP32"
    /\ deepspeed_enabled = FALSE
    /\ scaler_enabled = FALSE
    /\ amp_closure = FALSE
    /\ grad_clip_norm = FALSE
    /\ strategy_arg = "None"
    /\ algorithms = {}
    /\ ddp_sync_strategy = "SINGLE_AUTO_SYNC"
    /\ scaler = "ClosureGradScaler"
    /\ ddp_sync = TRUE
    /\ grads_inf = NoWorker
    /\ found_inf = NoWorker
    /\ params = NoCount
    /\ backoffs = NoCount
    /\ loss_none = NoWorker
    /\ collectives = NoLog
    /\ synced = {}
    /\ start = NoStart
    /\ tail_ops = <<>>
    /\ grads = {}
    /\ leftover = {}
    /\ SeedGiven

\* the trainer after construction without a checkpoint, checkpointing and
\* evaluation disabled
Init ==
    /\ closed = FALSE
    /\ epoch = 0
    /\ step = 0
    /\ batch = NoBatch
    /\ max_epochs \in 0..MaxEpochsBound
    /\ steps_per_epoch \in 1..MaxSteps
    /\ grad_accum \in 1..MaxGradAccum
    /\ loaderLen \in 1..steps_per_epoch
    /\ skipPos \in SUBSET (0..(loaderLen - 1))
    /\ iter = NoIter
    /\ max_step = INF
    /\ max_epoch = 0
    /\ microbatch_idx = 0
    /\ pc = "idle"
    /\ result = "none"
    /\ lastEvent = "TRAINING_START"
    /\ evBit = 0
    /\ sumNb = 0
    /\ call = NoCall
    /\ trained = <<>>
    /\ skipEpochs = {}
    /\ stopped = FALSE
    /\ checkpoint_interval_unit = "none"
    /\ checkpoint_interval = 1
    /\ validate_every_n_epochs = -1
    /\ validate_every_n_batches = -1
    /\ checkpoint_loader = FALSE
    /\ loaded = NoCkpt
    /\ ckpt = NoCkpt
    /\ rngRestores = 0
    /\ discarded = NONE
    /\ nInit = 1
    /\ optimizers = TRUE
    /\ nStarts = 0
    /\ nEnds = 0
    /\ ops = <<>>
    /\ bevents = <<>>
    /\ microbatches = <<>>
    /\ total_loss = Zero
    /\ NoAmp
    /\ NoEval

\* ---- engine (event dispatcher) -------------------------------------------
\* engine.close(): marks the dispatcher closed; closing twice changes nothing
EngineClose(c) == TRUE

\* mutant of ClosedAfterExcept: the except clause re-raises without closing
ClosedAfterExcept_NoClose(c) == c

\* line 710: self.engine.close() in the except clause
ClosedAfterExcept(c) == EngineClose(c)

\* mutant of Emits: a closed dispatcher delivers events like an open one
Emits_Always(c) == TRUE

\* a closed dispatcher delivers nothing: emit fails with a life-cycle error
Emits(c) == ~c

\* engine.run_event(ev): the event is delivered to every extension in order
RunEvent(ev) ==
    /\ Emits(closed)
    /\ lastEvent' = ev
    /\ evBit' = 1 - evBit

\* ---- fit(): entry --------------------------------------------------------
Args == (0..MaxNumBatches) \cup {NONE}
EpochArgs == (0..MaxNumEpochs) \cup {NONE}

\* mutant of ClosedCheck: fit() does not look at the engine
ClosedCheck_Never(c) == FALSE

\* line 650: if self.engine.closed
ClosedCheck(c) == c

\* lines 650-654: the engine is closed, fit() raises at once
FitClosed ==
    /\ pc = "idle"
    /\ ClosedCheck(closed)
    /\ result' = "LifecycleError"
    /\ UNCHANGED <<closed, epoch, step, batch, iter, max_step, max_epoch,
                   microbatch_idx, pc, lastEvent, evBit, sumNb, call, trained,
                   skipEpochs, stopped>>
    /\ UNCHANGED <<ckVars, ckpt, ctorVars, lossVars, nStarts, nEnds, ops, bevents>>
    /\ UNCHANGED <<cfgVars, ampVars, ddpVars, otherVars>>

\* mutant of ClosedAfterValueError: the argument checks sit inside the try
\* block, so the except clause closes the engine
ClosedAfterValueError_InTry(c) == EngineClose(c)

\* lines 656-663 precede the try of line 670: the except clause of lines
\* 708-711 does not run and the engine stays as it was
ClosedAfterValueError(c) == c

\* lines 656-663: argument errors, raised before the try block
FitBadArgs(num_batches, num_epochs) ==
    /\ pc = "idle"
    /\ ~ClosedCheck(closed)
    /\ \/ num_batches # NONE /\ num_epochs # NONE
       \/ batch_idx # 0 /\ num_epochs # NONE
    /\ result' = "ValueError"
    /\ closed' = ClosedAfterValueError(closed)
    /\ UNCHANGED <<epoch, step, batch, iter, max_step, max_epoch,
                   microbatch_idx, pc, lastEvent, evBit, sumNb, call, trained,
                   skipEpochs, stopped>>
    /\ UNCHANGED <<ckVars, ckpt, ctorVars, lossVars, nStarts, nEnds, ops, bevents>>
    /\ UNCHANGED <<cfgVars, ampVars, ddpVars, otherVars>>

\* mutant of MaxStep: the batch budget is taken as an absolute step
MaxStep_Absolute(st, num_batches) == IF num_batches # NONE THEN num_batches ELSE INF

\* lines 664-667: max_step = state.step + num_batches, inf by default
MaxStep(st, num_batches) == IF num_batches # NONE THEN st + num_batches ELSE INF

\* lines 665-669: max_epoch = state.epoch + num_epochs, max_epochs by default
MaxEpoch(ep, me, num_epochs) == IF num_epochs # NONE THEN ep + num_epochs ELSE me

\* lines 664-670: the budget of this call, then the try block is entered
FitEnter(num_batches, num_epochs) ==
    /\ pc = "idle"
    /\ ~ClosedCheck(closed)
    /\ num_epochs # NONE => epoch + num_epochs <= EpochCap
    /\ ~(num_batches # NONE /\ num_epochs # NONE)
    /\ ~(batch_idx # 0 /\ num_epochs # NONE)
    /\ max_step' = MaxStep(step, num_batches)
    /\ max_epoch' = MaxEpoch(epoch, max_epochs, num_epochs)
    /\ sumNb' = IF sumNb # NONE /\ num_batches # NONE
                   /\ sumNb + num_batches <= max_epochs * steps_per_epoch
                THEN sumNb + num_batches ELSE NONE
    /\ call' = [nb |-> num_batches, ne |-> num_epochs, step0 |-> step,
                epoch0 |-> epoch, trained0 |-> Len(trained), ends0 |-> nEnds]
    /\ result' = "running"
    /\ pc' = "loop"
    /\ UNCHANGED <<closed, epoch, step, batch, iter, microbatch_idx,
                   lastEvent, evBit, trained, skipEpochs, stopped>>
    /\ UNCHANGED <<ckVars, ckpt, ctorVars, lossVars, nStarts, nEnds, ops, bevents>>
    /\ UNCHANGED <<cfgVars, ampVars, ddpVars, otherVars>>

\* ---- fit(): the loops ----------------------------------------------------
\* line 671: while state.epoch < max_epoch and state.step < max_step
LoopCond == epoch < max_epoch /\ step < max_step

\* line 672: if state.batch_idx == 0 (an epoch starts)
AtEpochStart(bi) == bi = 0

\* line 704: if state.batch_idx == state.steps_per_epoch (an epoch ends)
AtEpochEnd(bi, spe) == bi = spe

\* mutant of Replay: the replay stops one batch short
Replay_OneShort(ep, spe, k) == [NewIter(ep, spe) EXCEPT !.pos = k - 1]

\* lines 682-684: a fresh bounded iterator, advanced by k calls of next()
Replay(ep, spe, k) == [NewIter(ep, spe) EXCEPT !.pos = k]

\* lines 683-684: one of the k calls of next() raises StopIteration
ReplayFails(k, spe, len) == k > Min(spe, len)

\* lines 671-690: loop test, choice of the branch, the replay after a
\* checkpoint was loaded in the middle of an epoch, the iterator assertion
LoopHead ==
    /\ pc = "loop"
    /\ IF ~LoopCond THEN
            /\ pc' = "TRAINING_END"
            /\ UNCHANGED <<closed, result, iter, ckVars>>
       ELSE IF AtEpochStart(batch_idx) THEN
            /\ pc' = "EPOCH_START"
            /\ UNCHANGED <<closed, result, iter, ckVars>>
       ELSE IF checkpoint_loader /\ ~iter.set THEN
            IF ReplayFails(batch_idx, steps_per_epoch, loaderLen) THEN
                \* StopIteration, handled by the except clause of fit()
                /\ iter' = Replay(epoch, steps_per_epoch,
                                  Min(steps_per_epoch, loaderLen))
                /\ discarded' = Min(steps_per_epoch, loaderLen)
                /\ pc' = "idle"
                /\ closed' = ClosedAfterExcept(closed)
                /\ result' = "StopIteration"
                /\ UNCHANGED <<checkpoint_loader, loaded, rngRestores>>
            ELSE
                /\ iter' = Replay(epoch, steps_per_epoch, batch_idx)
                /\ discarded' = batch_idx
                /\ rngRestores' = rngRestores + 1
                /\ checkpoint_loader' = FALSE
                /\ pc' = "next"
                /\ UNCHANGED <<closed, result, loaded>>
       ELSE IF iter.set /\ ~checkpoint_loader THEN
            /\ pc' = "next"
            /\ UNCHANGED <<closed, result, iter, ckVars>>
       ELSE \* AssertionError, handled by the except clause of fit()
            /\ pc' = "idle"
            /\ closed' = ClosedAfterExcept(closed)
            /\ result' = "raised"
            /\ UNCHANGED <<iter, ckVars>>
    /\ stopped' = FALSE
    /\ ops' = <<>>
    /\ UNCHANGED <<epoch, step, batch, max_step, max_epoch,
                   microbatch_idx, lastEvent, evBit, sumNb, call, trained, skipEpochs>>
    /\ UNCHANGED <<ckpt, ctorVars, lossVars, nStarts, nEnds, bevents>>
    /\ UNCHANGED <<cfgVars, ampVars, ddpVars, otherVars>>

\* lines 673-677: epoch-start event, then a fresh bounded iterator
EpochStart ==
    /\ pc = "EPOCH_START"
    /\ RunEvent("EPOCH_START")
    /\ iter' = NewIter(epoch, steps_per_epoch)
    /\ nStarts' = nStarts + 1
    /\ pc' = "next"
    /\ UNCHANGED <<closed, epoch, step, batch, max_step, max_epoch,
                   microbatch_idx, result, sumNb, call, trained, skipEpochs, stopped>>
    /\ UNCHANGED <<ckVars, ckpt, ctorVars, lossVars, nEnds, ops, bevents>>
    /\ UNCHANGED <<cfgVars, ampVars, ddpVars, otherVars>>

\* lines 692-696: inner loop test and next() on the iterator
NextBatch ==
    /\ pc = "next"
    /\ IF ~(step < max_step) THEN
            /\ pc' = "after_inner"
            /\ UNCHANGED <<batch, iter, trained, stopped, bevents>>
       ELSE IF Exhausted(iter, loaderLen) THEN
            /\ pc' = "after_inner"
            /\ stopped' = TRUE
            /\ UNCHANGED <<batch, iter, trained, bevents>>
       ELSE
            /\ batch' = [e |-> iter.e, p |-> iter.pos]
            /\ iter' = [iter EXCEPT !.pos = @ + 1]
            /\ trained' = Append(trained, [e |-> iter.e, p |-> iter.pos])
            /\ bevents' = <<>>
            /\ pc' = "AFTER_DATALOADER"
            /\ UNCHANGED stopped
    /\ UNCHANGED <<closed, epoch, step, max_step, max_epoch, microbatch_idx,
                   result, lastEvent, evBit, sumNb, call, skipEpochs>>
    /\ UNCHANGED <<ckVars, ckpt, ctorVars, lossVars, nStarts, nEnds, ops>>
    /\ UNCHANGED <<cfgVars, ampVars, ddpVars, seedVars>>
    /\ training' = IF pc' = "AFTER_DATALOADER" THEN TRUE ELSE training
    /\ UNCHANGED <<restore_model_train, eval_subset_num_batches, eval_idx, evlog>>
    /\ UNCHANGED gradVars
    /\ tail_ops' = <<>>

\* ---- _train_batch() / _train_batch_inner() -------------------------------
\* mutant of AfterEvent: the second and later microbatches are not processed
AfterEvent_OneMicrobatch(ev, mb, ga) ==
    CASE ev = "AFTER_DATALOADER"   -> [pc |-> "BATCH_START", mb |-> mb]
      [] ev = "BATCH_START"        -> [pc |-> "BEFORE_TRAIN_BATCH", mb |-> mb]
      [] ev = "BEFORE_TRAIN_BATCH" -> [pc |-> "BEFORE_FORWARD", mb |-> 0]
      [] ev = "BEFORE_FORWARD"     -> [pc |-> "AFTER_FORWARD", mb |-> mb]
      [] ev = "AFTER_FORWARD"      -> [pc |-> "BEFORE_LOSS", mb |-> mb]
      [] ev = "BEFORE_LOSS"        -> [pc |-> "AFTER_LOSS", mb |-> mb]
      [] ev = "AFTER_LOSS"         -> [pc |-> "BEFORE_BACKWARD", mb |-> mb]
      [] ev = "BEFORE_BACKWARD"    -> [pc |-> "AFTER_BACKWARD", mb |-> mb]
      [] ev = "AFTER_BACKWARD"     -> [pc |-> "AFTER_TRAIN_BATCH", mb |-> mb]
      [] ev = "AFTER_TRAIN_BATCH"  -> [pc |-> "step", mb |-> mb]
      [] ev = "BATCH_END"          -> [pc |-> "tail", mb |-> mb]

\* the position that follows the delivery of a batch event
AfterEvent(ev, mb, ga) ==
    CASE ev = "AFTER_DATALOADER"   -> [pc |-> "BATCH_START", mb |-> mb]
      [] ev = "BATCH_START"        -> [pc |-> "BEFORE_TRAIN_BATCH", mb |-> mb]
      [] ev = "BEFORE_TRAIN_BATCH" -> [pc |-> "BEFORE_FORWARD", mb |-> 0]
      [] ev = "BEFORE_FORWARD"     -> [pc |-> "AFTER_FORWARD", mb |-> mb]
      [] ev = "AFTER_FORWARD"      -> [pc |-> "BEFORE_LOSS", mb |-> mb]
      [] ev = "BEFORE_LOSS"        -> [pc |-> "AFTER_LOSS", mb |-> mb]
      [] ev = "AFTER_LOSS"         -> [pc |-> "BEFORE_BACKWARD", mb |-> mb]
      [] ev = "BEFORE_BACKWARD"    -> [pc |-> "AFTER_BACKWARD", mb |-> mb]
      [] ev = "AFTER_BACKWARD"     ->
            IF mb + 1 < ga THEN [pc |-> "BEFORE_FORWARD", mb |-> mb + 1]
                           ELSE [pc |-> "AFTER_TRAIN_BATCH", mb |-> mb]
      [] ev = "AFTER_TRAIN_BATCH"  -> [pc |-> "step", mb |-> mb]
      [] ev = "BATCH_END"          -> [pc |-> "tail", mb |-> mb]

\* mutant of ZeroGrad: the gradients are left as they are
ZeroGrad_Never(ds, g) == g

\* lines 940-942: optimizer.zero_grad() for every optimizer unless DeepSpeed,
\* whose engine owns the gradients
ZeroGrad(ds, g) == IF ds THEN g ELSE {}

\* lines 997-999: loss.backward() adds the gradients of the batch to the ones
\* the parameters hold
Backward(ds, g, b) == IF ds THEN g ELSE g \cup {b}

\* lines 858-862, 932-1018, 903: an event of the batch is delivered and the
\* extensions return normally.  The extension that skips epochs raises its
\* signal at one of the events of a batch whose position is in skipPos.
BatchEvent ==
    /\ pc \in BatchEvents
    /\ ~(pc = "BATCH_END" /\ batch.p \in skipPos)
    /\ RunEvent(pc)
    /\ pc' = AfterEvent(pc, microbatch_idx, grad_accum).pc
    /\ microbatch_idx' = AfterEvent(pc, microbatch_idx, grad_accum).mb
    /\ bevents' = Append(bevents, pc)
    /\ UNCHANGED <<closed, epoch, step, batch, iter, max_step, max_epoch,
                   result, sumNb, call, trained, skipEpochs, stopped>>
    /\ UNCHANGED <<ckVars, ckpt, ctorVars, lossVars, nStarts, nEnds, ops>>
    /\ UNCHANGED <<cfgVars, ampVars, ddpVars, seedVars, evalVars>>
    /\ grads' = CASE pc = "BEFORE_TRAIN_BATCH" -> ZeroGrad(deepspeed_enabled, grads)
                 [] pc = "BEFORE_BACKWARD" -> Backward(deepspeed_enabled, grads, batch)
                 [] OTHER -> grads
    /\ leftover' = IF pc = "BEFORE_TRAIN_BATCH" THEN grads ELSE leftover
    /\ tail_ops' = IF pc = "BATCH_END" THEN Append(tail_ops, pc) ELSE tail_ops

\* lines 869-889: the optimizer step (with or without closure), scaler update
OptimizerStep ==
    /\ pc = "step"
    /\ pc' = "BATCH_END"
    /\ UNCHANGED <<closed, epoch, step, batch, iter, max_step, max_epoch,
                   microbatch_idx, result, lastEvent, evBit, sumNb, call, trained,
                   skipEpochs, stopped>>
    /\ UNCHANGED <<ckVars, ckpt, ctorVars, lossVars, nStarts, nEnds, ops, bevents>>
    /\ UNCHANGED <<cfgVars, ampVars, ddpVars, seedVars, evalVars>>
    /\ leftover' = {}
    /\ UNCHANGED grads
    /\ tail_ops' = <<"optimizer_step">>

\* Checkpointer.should_checkpoint(state, event): the interval, measured in
\* the configured unit, has elapsed at the event
ShouldCheckpoint(unit, interval, ev, ep, st) ==
    \/ unit = "ep" /\ ev = "EPOCH_END" /\ ep % interval = 0
    \/ unit = "it" /\ ev = "BATCH_END" /\ st % interval = 0

\* Checkpointer.save_checkpoint(state, ...): the snapshot of state; it is the
\* train iterator of the run that saves, as it is when the handler returns
Snapshot(ep, st, i) == [saved |-> TRUE, epoch |-> ep, step |-> st, it |-> i]

\* mutant of BatchEvalDue: the batches are counted after the increment
BatchEvalDue_After(n, st) == n > 0 /\ (st + 2) % n = 0

\* line 908: validate_every_n_batches > 0 and (step + 1) % validate_every_n_batches == 0
BatchEvalDue(n, st) == n > 0 /\ (st + 1) % n = 0

\* mutant of TailOps: state.step is incremented before the evaluation
TailOps_IncFirst(evalDue, saveDue) ==
    <<"scheduler_step", "step_inc">>
    \o (IF evalDue THEN <<"eval">> ELSE <<>>)
    \o <<"should_checkpoint">>
    \o (IF saveDue THEN <<"save_checkpoint">> ELSE <<>>)

\* lines 905-913 in order: the schedulers step, the evaluation pass if due,
\* state.step += 1, should_checkpoint is asked, the checkpoint is saved if so
TailOps(evalDue, saveDue) ==
    <<"scheduler_step">>
    \o (IF evalDue THEN <<"eval">> ELSE <<>>)
    \o <<"step_inc", "should_checkpoint">>
    \o (IF saveDue THEN <<"save_checkpoint">> ELSE <<>>)

\* lines 905-913: scheduler step, the evaluation pass if due (an even number
\* of events, the last one EVAL_END), state.step += 1, then the checkpoint
BatchTail ==
    /\ pc = "tail"
    /\ lastEvent' = IF BatchEvalDue(validate_every_n_batches, step)
                    THEN "EVAL_END" ELSE lastEvent
    /\ step' = step + 1
    /\ ckpt' = IF ShouldCheckpoint(checkpoint_interval_unit, checkpoint_interval,
                                   "BATCH_END", epoch, step')
               THEN Snapshot(epoch, step', iter) ELSE ckpt
    /\ bevents' = <<>>
    /\ pc' = "next"
    /\ UNCHANGED <<closed, epoch, batch, iter, max_step, max_epoch,
                   microbatch_idx, result, evBit, sumNb, call, trained,
                   skipEpochs, stopped>>
    /\ UNCHANGED <<ckVars, ctorVars, lossVars, nStarts, nEnds, ops>>
    /\ UNCHANGED <<cfgVars, ampVars, ddpVars, seedVars, evalVars>>
    /\ UNCHANGED gradVars
    /\ tail_ops' = tail_ops \o
           TailOps(BatchEvalDue(validate_every_n_batches, step),
                   ShouldCheckpoint(checkpoint_interval_unit, checkpoint_interval,
                                    "BATCH_END", epoch, step'))

\* lines 698-702: an extension raises BreakEpochException from an event of
\* the batch; step jumps to the epoch boundary and the inner loop goes on
BreakEpoch ==
    /\ pc \in BatchEvents
    /\ batch.p \in skipPos
    /\ RunEvent(pc)
    /\ step' = step + (steps_per_epoch - batch_idx)
    /\ skipEpochs' = skipEpochs \cup {iter.e}
    /\ bevents' = <<>>
    /\ pc' = "next"
    /\ UNCHANGED <<closed, epoch, batch, iter, max_step, max_epoch,
                   microbatch_idx, result, sumNb, call, trained, stopped>>
    /\ UNCHANGED <<ckVars, ckpt, ctorVars, lossVars, nStarts, nEnds, ops>>
    /\ UNCHANGED <<cfgVars, ampVars, ddpVars, seedVars, evalVars>>
    /\ leftover' = {}
    /\ UNCHANGED grads
    /\ tail_ops' = <<>>

\* ---- _epoch_end() --------------------------------------------------------
\* lines 704, 813-814: if state.batch_idx == state.steps_per_epoch the
\* end-of-epoch handling begins: every scheduler is stepped with interval='epoch'
AfterInner ==
    /\ pc = "after_inner"
    /\ IF AtEpochEnd(batch_idx, steps_per_epoch)
       THEN pc' = "EPOCH_END" /\ ops' = <<"scheduler.step">>
       ELSE pc' = "loop" /\ ops' = ops
    /\ UNCHANGED <<closed, epoch, step, batch, iter, max_step, max_epoch,
                   microbatch_idx, result, lastEvent, evBit, sumNb, call, trained,
                   skipEpochs, stopped>>
    /\ UNCHANGED <<ckVars, ckpt, ctorVars, lossVars, nStarts, nEnds, bevents>>
    /\ UNCHANGED <<cfgVars, ampVars, ddpVars, otherVars>>

\* line 816: the epoch-end event
EpochEndEvent ==
    /\ pc = "EPOCH_END"
    /\ RunEvent("EPOCH_END")
    /\ nEnds' = nEnds + 1
    /\ ops' = Append(ops, "EPOCH_END")
    /\ pc' = "eval_epoch"
    /\ UNCHANGED <<closed, epoch, step, batch, iter, max_step, max_epoch,
                   microbatch_idx, result, sumNb, call, trained, skipEpochs, stopped>>
    /\ UNCHANGED <<ckVars, ckpt, ctorVars, lossVars, nStarts, bevents>>
    /\ UNCHANGED <<cfgVars, ampVars, ddpVars, otherVars>>

\* line 818: validate_every_n_epochs > 0 and (epoch + 1) % validate_every_n_epochs == 0
EvalDue(n, ep) == n > 0 /\ (ep + 1) % n = 0

\* lines 818-819: the evaluation pass, if due.  eval() delivers EVAL_START,
\* four events per evaluation batch and EVAL_END: an even number of events
EpochEval ==
    /\ pc = "eval_epoch"
    /\ IF EvalDue(validate_every_n_epochs, epoch)
       THEN lastEvent' = "EVAL_END" /\ ops' = Append(ops, "eval")
       ELSE UNCHANGED <<lastEvent, ops>>
    /\ pc' = "epoch_inc"
    /\ UNCHANGED <<closed, epoch, step, batch, iter, max_step, max_epoch,
                   microbatch_idx, result, evBit, sumNb, call, trained,
                   skipEpochs, stopped>>
    /\ UNCHANGED <<ckVars, ckpt, ctorVars, lossVars, nStarts, nEnds, bevents>>
    /\ UNCHANGED <<cfgVars, ampVars, ddpVars, otherVars>>

\* mutant of EpochAtCheckpoint: the checkpoint is taken before the increment
EpochAtCheckpoint_Before(ep) == ep

\* lines 821-824: state.epoch when should_checkpoint and save_checkpoint run
EpochAtCheckpoint(ep) == ep + 1

\* lines 821-826: state.epoch += 1, the checkpoint, the iterator is discarded
EpochInc ==
    /\ pc = "epoch_inc"
    /\ epoch' = epoch + 1
    /\ LET e == EpochAtCheckpoint(epoch)
           save == ShouldCheckpoint(checkpoint_interval_unit, checkpoint_interval,
                                    "EPOCH_END", e, step)
       IN /\ ckpt' = IF save THEN Snapshot(e, step, NoIter) ELSE ckpt
          /\ ops' = ops \o <<"epoch += 1">>
                        \o (IF save THEN <<"checkpoint">> ELSE <<>>)
                        \o <<"iterator = None">>
    /\ iter' = NoIter
    /\ pc' = "loop"
    /\ UNCHANGED <<closed, step, batch, max_step, max_epoch, microbatch_idx,
                   result, lastEvent, evBit, sumNb, call, trained, skipEpochs, stopped>>
    /\ UNCHANGED <<ckVars, ctorVars, lossVars, nStarts, nEnds, bevents>>
    /\ UNCHANGED <<cfgVars, ampVars, ddpVars, otherVars>>

\* ---- fit(): exit ---------------------------------------------------------
\* lines 712-714: the engine is closed on return iff state.epoch == max_epochs
CloseOnReturn(ep, me) == ep = me

\* mutant of ExitEvent: the loop is left with the event of an epoch end
ExitEvent_EpochEnd == "EPOCH_END"

\* line 707: the event delivered when the loop of fit() is left
ExitEvent == "TRAINING_END"

\* lines 707, 712-714: training-end event, then the else clause
TrainingEnd ==
    /\ pc = "TRAINING_END"
    /\ RunEvent(ExitEvent)
    /\ closed' = IF CloseOnReturn(epoch, max_epochs) THEN EngineClose(closed) ELSE closed
    /\ result' = "returned"
    /\ pc' = "idle"
    /\ UNCHANGED <<epoch, step, batch, iter, max_step, max_epoch,
                   microbatch_idx, sumNb, call, trained, skipEpochs, stopped>>
    /\ UNCHANGED <<ckVars, ckpt, ctorVars, lossVars, nStarts, nEnds, ops, bevents>>
    /\ UNCHANGED <<cfgVars, ampVars, ddpVars, otherVars>>

\* lines 708-711: any exception raised inside the try block (by a handler,
\* the model, the optimizer, the data source) closes the engine, re-raised
FitExcept ==
    /\ pc \in TryPcs
    /\ closed' = ClosedAfterExcept(closed)
    /\ result' = "raised"
    /\ pc' = "idle"
    /\ UNCHANGED <<epoch, step, batch, iter, max_step, max_epoch,
                   microbatch_idx, lastEvent, evBit, sumNb, call, trained,
                   skipEpochs, stopped>>
    /\ UNCHANGED <<ckVars, ckpt, ctorVars, lossVars, nStarts, nEnds, ops, bevents>>
    /\ UNCHANGED <<cfgVars, ampVars, ddpVars, seedVars, evalVars>>
    /\ leftover' = {}
    /\ UNCHANGED grads
    /\ tail_ops' = <<>>

\* ---- eval() ------------------------------------------------------------
\* the events of one evaluation batch, lines 1048-1056
EvalBatchEvents == <<"EVAL_BATCH_START", "EVAL_BEFORE_FORWARD",
                     "EVAL_AFTER_FORWARD", "EVAL_BATCH_END">>

\* positions inside eval()
EvalPcs == {EvalBatchEvents[i] : i \in 1..Len(EvalBatchEvents)} \cup {"EVAL_END"}

\* line 1042: the loop over islice(eval_dataloader, n) goes on with batch i
EvalLoop(i, n) == IF i < n THEN EvalBatchEvents[1] ELSE "EVAL_END"

\* the position that follows the delivery of an event of an evaluation batch
AfterEvalEvent(ev, i, n) ==
    CASE ev = "EVAL_BATCH_START"    -> [pc |-> "EVAL_BEFORE_FORWARD", i |-> i]
      [] ev = "EVAL_BEFORE_FORWARD" -> [pc |-> "EVAL_AFTER_FORWARD", i |-> i]
      [] ev = "EVAL_AFTER_FORWARD"  -> [pc |-> "EVAL_BATCH_END", i |-> i]
      [] ev = "EVAL_BATCH_END"      -> [pc |-> EvalLoop(i + 1, n), i |-> i + 1]

\* mutant of RestoreMode: model.train() is called whatever the mode was
RestoreMode_Always(restore, mode) == TRUE

\* lines 1061-1062: if restore_model_train: model.train()
RestoreMode(restore, mode) == IF restore THEN TRUE ELSE mode

\* line 1042: state.batch is bound to the evaluation batch
EvalBatch(i) == [e |-> NONE, p |-> i]

\* lines 1022-1038: eval() called by the user between two calls of fit().
\* The mode of the model is saved and the model is put in evaluation mode.
\* There is no test of engine.closed in eval(): the first thing the engine is
\* asked for is the EVAL_START event, and a closed engine raises
EvalStart ==
    /\ pc = "idle"
    /\ training' = FALSE
    /\ eval_idx' = 0
    /\ IF Emits(closed)
       THEN /\ RunEvent("EVAL_START")
            /\ evlog' = <<"EVAL_START">>
            /\ pc' = EvalLoop(0, eval_subset_num_batches)
            /\ restore_model_train' = training
            /\ batch' = IF 0 < eval_subset_num_batches THEN EvalBatch(0) ELSE batch
            /\ UNCHANGED result
       ELSE /\ result' = "LifecycleError"
            /\ UNCHANGED <<lastEvent, evBit, pc, batch, evlog, restore_model_train>>
    /\ UNCHANGED <<closed, epoch, step, iter, max_step, max_epoch,
                   microbatch_idx, sumNb, call, trained, skipEpochs, stopped>>
    /\ UNCHANGED <<ckVars, ckpt, ctorVars, lossVars, nStarts, nEnds, ops, bevents>>
    /\ UNCHANGED <<cfgVars, ampVars, ddpVars, seedVars, tail_ops, gradVars,
                   eval_subset_num_batches>>

\* lines 1042-1056: the four events of an evaluation batch, one at a time
EvalBatchEvent ==
    /\ pc \in EvalPcs \ {"EVAL_END"}
    /\ RunEvent(pc)
    /\ evlog' = Append(evlog, pc)
    /\ pc' = AfterEvalEvent(pc, eval_idx, eval_subset_num_batches).pc
    /\ eval_idx' = AfterEvalEvent(pc, eval_idx, eval_subset_num_batches).i
    /\ batch' = IF pc' = EvalBatchEvents[1] THEN EvalBatch(eval_idx') ELSE batch
    /\ UNCHANGED <<closed, epoch, step, iter, max_step, max_epoch,
                   microbatch_idx, result, sumNb, call, trained, skipEpochs, stopped>>
    /\ UNCHANGED <<ckVars, ckpt, ctorVars, lossVars, nStarts, nEnds, ops, bevents>>
    /\ UNCHANGED <<cfgVars, ampVars, ddpVars, seedVars, tail_ops, gradVars,
                   training, restore_model_train, eval_subset_num_batches>>

\* lines 1058-1062: the metrics, EVAL_END, then the mode found on entry
EvalEnd ==
    /\ pc = "EVAL_END"
    /\ RunEvent("EVAL_END")
    /\ training' = RestoreMode(restore_model_train, training)
    /\ evlog' = <<>>
    /\ restore_model_train' = TRUE
    /\ eval_idx' = 0
    /\ pc' = "idle"
    /\ UNCHANGED <<closed, epoch, step, batch, iter, max_step, max_epoch,
                   microbatch_idx, result, sumNb, call, trained, skipEpochs, stopped>>
    /\ UNCHANGED <<ckVars, ckpt, ctorVars, lossVars, nStarts, nEnds, ops, bevents>>
    /\ UNCHANGED <<cfgVars, ampVars, ddpVars, seedVars, tail_ops, gradVars,
                   eval_subset_num_batches>>

\* ---- __init__() --------------------------------------------------------
\* positions inside the constructor
CtorPcs == {"INIT", "setup", "TRAINING_START"}

\* mutant of CtorOrder: optimizers and schedulers are created first
CtorOrder_SetupFirst == <<"setup", "INIT", "TRAINING_START">>

\* lines 268-370: the INIT event, then the optimizers, schedulers and the
\* checkpoint, then the TRAINING_START event
CtorOrder == <<"INIT", "setup", "TRAINING_START">>

\* the position that follows position p of the constructor
CtorAfter(p) ==
    LET i == CHOOSE k \in 1..Len(CtorOrder) : CtorOrder[k] = p
    IN IF i < Len(CtorOrder) THEN CtorOrder[i + 1] ELSE "idle"

\* line 268: the INIT event, before optimizers and schedulers are created
CtorInit ==
    /\ pc = "INIT"
    /\ RunEvent("INIT")
    /\ nInit' = nInit + 1
    /\ pc' = CtorAfter("INIT")
    /\ UNCHANGED <<closed, epoch, step, batch, iter, max_step, max_epoch,
                   microbatch_idx, result, sumNb, call, trained, skipEpochs, stopped>>
    /\ UNCHANGED <<ckVars, ckpt, optimizers, lossVars, nStarts, nEnds, ops, bevents>>
    /\ UNCHANGED <<cfgVars, ampVars, ddpVars, otherVars>>

\* CheckpointLoader.load_checkpoint(state): epoch and step of the snapshot
\* are written into state
LoadCheckpoint(c) == [epoch |-> c.epoch, step |-> c.step]

\* lines 270-359: optimizers and schedulers are created, then the
\* checkpointer, then the checkpoint (if a path was given) is loaded
CtorSetup ==
    /\ pc = "setup"
    /\ optimizers' = TRUE
    /\ IF loaded.saved
       THEN /\ checkpoint_loader' = TRUE
            /\ epoch' = LoadCheckpoint(loaded).epoch
            /\ step' = LoadCheckpoint(loaded).step
       ELSE /\ checkpoint_loader' = FALSE
            /\ UNCHANGED <<epoch, step>>
    /\ pc' = CtorAfter("setup")
    /\ UNCHANGED <<closed, batch, iter, max_step, max_epoch, microbatch_idx,
                   result, lastEvent, evBit, sumNb, call, trained, skipEpochs, stopped>>
    /\ UNCHANGED <<loaded, rngRestores, discarded, ckpt, nInit, lossVars,
                   nStarts, nEnds, ops, bevents>>
    /\ UNCHANGED <<cfgVars, ampVars, ddpVars, otherVars>>

\* mutant of RestoreAtConstruction: restored whatever batch_idx is
RestoreAtConstruction_Always(bi, loader) == loader

\* lines 365-368: the random state is restored here iff batch_idx == 0
RestoreAtConstruction(bi, loader) == bi = 0 /\ loader

\* lines 361-370: the training-start event, the dataloaders are spun, the
\* random state of a checkpoint taken at an epoch boundary is restored
CtorFinish ==
    /\ pc = "TRAINING_START"
    /\ RunEvent("TRAINING_START")
    /\ IF RestoreAtConstruction(batch_idx, checkpoint_loader)
       THEN /\ rngRestores' = rngRestores + 1
            /\ checkpoint_loader' = FALSE
       ELSE UNCHANGED <<rngRestores, checkpoint_loader>>
    /\ iter' = NoIter
    /\ pc' = CtorAfter("TRAINING_START")
    /\ UNCHANGED <<closed, epoch, step, batch, max_step, max_epoch,
                   microbatch_idx, result, sumNb, call, trained, skipEpochs, stopped>>
    /\ UNCHANGED <<loaded, discarded, ckpt, ctorVars, lossVars, nStarts, nEnds,
                   ops, bevents>>
    /\ UNCHANGED <<cfgVars, ampVars, ddpVars, otherVars>>

\* Trainer(..., checkpoint_filepath = the checkpoint last saved): a new
\* trainer with the same configuration, data source and extensions replaces
\* the present one
Reload ==
    /\ pc = "idle"
    /\ ckpt.saved
    /\ loaded' = ckpt
    /\ closed' = FALSE
    /\ epoch' = 0
    /\ step' = 0
    /\ batch' = NoBatch
    /\ iter' = NoIter
    /\ max_step' = INF
    /\ max_epoch' = 0
    /\ microbatch_idx' = 0
    /\ pc' = CtorOrder[1]
    /\ result' = "none"
    /\ lastEvent' = "none"
    /\ evBit' = 0
    /\ sumNb' = NONE
    /\ call' = NoCall
    /\ trained' = <<>>
    /\ skipEpochs' = {}
    /\ stopped' = FALSE
    /\ checkpoint_loader' = FALSE
    /\ rngRestores' = 0
    /\ discarded' = NONE
    /\ nInit' = 0
    /\ optimizers' = FALSE
    /\ nStarts' = 0
    /\ nEnds' = 0
    /\ ops' = <<>>
    /\ bevents' = <<>>
    /\ UNCHANGED <<ckpt, lossVars>>
    /\ UNCHANGED <<cfgVars, ampVars, ddpVars, seedVars, eval_subset_num_batches>>
    /\ training' = TRUE
    /\ restore_model_train' = TRUE
    /\ eval_idx' = 0
    /\ evlog' = <<>>
    /\ grads' = {}
    /\ leftover' = {}
    /\ tail_ops' = <<>>

Construct ==
    \/ CtorInit
    \/ CtorSetup
    \/ CtorFinish

Fit ==
    \/ FitClosed
    \/ \E nb \in Args, ne \in EpochArgs : FitBadArgs(nb, ne)
    \/ \E nb \in Args, ne \in EpochArgs : FitEnter(nb, ne)

\* the steps the running call takes by itself
Run ==
    \/ LoopHead
    \/ EpochStart
    \/ NextBatch
    \/ BatchEvent
    \/ OptimizerStep
    \/ BatchTail
    \/ BreakEpoch
    \/ AfterInner
    \/ EpochEndEvent
    \/ EpochEval
    \/ EpochInc
    \/ TrainingEnd

Next == Fit \/ Run \/ FitExcept

Spec == Init /\ [][Next]_vars

\* the running call is scheduled until it returns or raises
FairSpec == Spec /\ WF_vars(Run)

\* ---- trainers with checkpoints -------------------------------------------
\* a trainer about to be constructed without a checkpoint: max_epochs and
\* steps_per_epoch at their bounds, a data source of full length, an
\* extension that skips at the first batch of an epoch or none; checkpoints
\* are saved per epoch or per batch, the evaluation at epoch end is enabled
\* or not
InitCk ==
    /\ closed = FALSE
    /\ epoch = 0
    /\ step = 0
    /\ batch = NoBatch
    /\ max_epochs = MaxEpochsBound
    /\ steps_per_epoch = MaxSteps
    /\ grad_accum \in {1, MaxMicrobatches}
    /\ loaderLen = steps_per_epoch
    /\ skipPos \in {{}, {0}}
    /\ iter = NoIter
    /\ max_step = INF
    /\ max_epoch = 0
    /\ microbatch_idx = 0
    /\ pc = CtorOrder[1]
    /\ result = "none"
    /\ lastEvent = "none"
    /\ evBit = 0
    /\ sumNb = NONE
    /\ call = NoCall
    /\ trained = <<>>
    /\ skipEpochs = {}
    /\ stopped = FALSE
    /\ checkpoint_interval_unit \in {"ep", "it"}
    /\ checkpoint_interval = MaxInterval
    /\ validate_every_n_epochs \in {-1, MaxValidate}
    /\ validate_every_n_batches \in {-1, MaxValidate}
    /\ checkpoint_loader = FALSE
    /\ loaded = NoCkpt
    /\ ckpt = NoCkpt
    /\ rngRestores = 0
    /\ discarded = NONE
    /\ nInit = 0
    /\ optimizers = FALSE
    /\ nStarts = 0
    /\ nEnds = 0
    /\ ops = <<>>
    /\ bevents = <<>>
    /\ microbatches = <<>>
    /\ total_loss = Zero
    /\ NoAmp
    /\ training = TRUE
    /\ restore_model_train = TRUE
    /\ eval_subset_num_batches = 0
    /\ eval_idx = 0
    /\ evlog = <<>>

\* eval() called by the user
Eval == EvalStart \/ EvalBatchEvent \/ EvalEnd

\* the evaluation passes of these trainers take no batch
NextCk == Construct \/ Reload \/ EvalStart \/ EvalEnd \/ Next

SpecCk == InitCk /\ [][NextCk]_vars

\* ---- _train_batch_inner(): the loss of a batch ---------------------------
\* a loss value is a fraction n / d, kept exact
Add(a, b) == [n |-> a.n * b.d + b.n * a.d, d |-> a.d * b.d]

Mul(a, b) == [n |-> a.n * b.n, d |-> a.d * b.d]

Same(a, b) == a.n * b.d = b.n * a.d

RECURSIVE SumSeq(_)
SumSeq(q) == IF q = <<>> THEN 0 ELSE Head(q) + SumSeq(Tail(q))

\* a microbatch: the losses of its samples
Samples == UNION {[1..k -> 0..MaxLoss] : k \in 1..MaxMicrobatchSize}

\* _get_batch_size(batch)
GetBatchSize(mb) == Len(mb)

\* line 946: current_batch_size = sum of the sizes of the microbatches
RECURSIVE CurrentBatchSize(_)
CurrentBatchSize(mbs) ==
    IF mbs = <<>> THEN 0 ELSE GetBatchSize(Head(mbs)) + CurrentBatchSize(Tail(mbs))

\* line 971: model.loss(outputs, batch), the mean loss of the microbatch
MeanLoss(mb) == [n |-> SumSeq(mb), d |-> Len(mb)]

\* mutant of LossScale: every microbatch weighs 1 / grad_accum
LossScale_ByCount(b, B, N) == [n |-> 1, d |-> N]

\* line 978: last_microbatch_size / current_batch_size
LossScale(b, B, N) == [n |-> b, d |-> B]

\* a batch was split into microbatches, total_loss = zeros (line 945)
InitLoss ==
    /\ closed = FALSE
    /\ epoch = 0
    /\ step = 0
    /\ batch = NoBatch
    /\ max_epochs = 1
    /\ steps_per_epoch = 1
    /\ microbatches \in UNION {[1..k -> Samples] : k \in 1..MaxMicrobatches}
    /\ grad_accum = Len(microbatches)
    /\ loaderLen = 1
    /\ skipPos = {}
    /\ iter = NoIter
    /\ max_step = INF
    /\ max_epoch = 0
    /\ microbatch_idx = 0
    /\ pc = "loss"
    /\ result = "none"
    /\ lastEvent = "BEFORE_TRAIN_BATCH"
    /\ evBit = 0
    /\ sumNb = NONE
    /\ call = NoCall
    /\ trained = <<>>
    /\ skipEpochs = {}
    /\ stopped = FALSE
    /\ checkpoint_interval_unit = "none"
    /\ checkpoint_interval = 1
    /\ validate_every_n_epochs = -1
    /\ validate_every_n_batches = -1
    /\ checkpoint_loader = FALSE
    /\ loaded = NoCkpt
    /\ ckpt = NoCkpt
    /\ rngRestores = 0
    /\ discarded = NONE
    /\ nInit = 1
    /\ optimizers = TRUE
    /\ nStarts = 0
    /\ nEnds = 0
    /\ ops = <<>>
    /\ bevents = <<>>
    /\ total_loss = Zero
    /\ NoAmp
    /\ NoEval

\* lines 948-979: the loss of the next microbatch is scaled in place and
\* added to total_loss
Accumulate ==
    /\ pc = "loss"
    /\ microbatch_idx < Len(microbatches)
    /\ LET mb == microbatches[microbatch_idx + 1]
           last_microbatch_size == GetBatchSize(mb)
           current_batch_size == CurrentBatchSize(microbatches)
           loss == Mul(MeanLoss(mb),
                       LossScale(last_microbatch_size, current_batch_size,
                                 Len(microbatches)))
       IN total_loss' = Add(total_loss, loss)
    /\ microbatch_idx' = microbatch_idx + 1
    /\ UNCHANGED <<closed, epoch, step, batch, iter, max_step, max_epoch, pc,
                   result, lastEvent, evBit, sumNb, call, trained, skipEpochs,
                   stopped, microbatches>>
    /\ UNCHANGED <<ckVars, ckpt, ctorVars, nStarts, nEnds, ops, bevents>>
    /\ UNCHANGED <<cfgVars, ampVars, ddpVars, otherVars>>

\* line 1020: return total_loss
ReturnLoss ==
    /\ pc = "loss"
    /\ microbatch_idx = Len(microbatches)
    /\ pc' = "loss_done"
    /\ UNCHANGED <<closed, epoch, step, batch, iter, max_step, max_epoch,
                   microbatch_idx, result, lastEvent, evBit, sumNb, call, trained,
                   skipEpochs, stopped>>
    /\ UNCHANGED <<ckVars, ckpt, ctorVars, lossVars, nStarts, nEnds, ops, bevents>>
    /\ UNCHANGED <<cfgVars, ampVars, ddpVars, otherVars>>

NextLoss == Accumulate \/ ReturnLoss

SpecLoss == InitLoss /\ [][NextLoss]_vars

\* ---- precision, gradient scaling and the workers of a distributed run ----
Precisions == {"FP32", "FP16", "AMP"}

\* DDPSyncStrategy: SINGLE_AUTO_SYNC synchronizes on the final microbatch
\* only, FORCED_SYNC on every microbatch
Strategies == {"SINGLE_AUTO_SYNC", "FORCED_SYNC"}

\* an algorithm is known by whether it may leave parameters without gradients
AlgorithmKinds == {"plain", "unused"}

\* lines 720-722: any(x.find_unused_parameters for x in state.algorithms)
find_unused_parameters(algs) == \E a \in algs : a = "unused"

\* mutant of SyncStrategy: final-only whatever the algorithms report
SyncStrategy_FinalOnly(arg, algs) == IF arg = "None" THEN "SINGLE_AUTO_SYNC" ELSE arg

\* lines 256-259: the strategy is derived from the algorithms only if the
\* argument was not passed
SyncStrategy(arg, algs) ==
    IF arg = "None"
    THEN IF ~find_unused_parameters(algs) THEN "SINGLE_AUTO_SYNC" ELSE "FORCED_SYNC"
    ELSE arg

\* mutant of UseGradScaling: the precision alone decides
UseGradScaling_PrecisionOnly(prec, ds) == prec = "AMP"

\* lines 1080-1084, 1089: the value _use_grad_scaling returns
UseGradScaling(prec, ds) == IF ds THEN FALSE ELSE prec = "AMP"

\* lines 1080-1088: _use_grad_scaling raises RuntimeError
GradScalingRaises(prec, ds, enabled) ==
    IF ds THEN FALSE ELSE prec = "AMP" /\ ~enabled

\* lines 1097-1108: _use_closures
UseClosures(prec, ds, ampc) ==
    IF ds THEN FALSE ELSE IF prec # "AMP" THEN TRUE ELSE ampc

\* lines 343-359: the class of state.scaler
ScalerClass(prec, ds, ampc) ==
    IF UseClosures(prec, ds, ampc) THEN "ClosureGradScaler" ELSE "GradScaler"

BoolInt(flag) == IF flag THEN 1 ELSE 0

RECURSIVE Product(_, _)
Product(f, n) == IF n = 0 THEN 1 ELSE f[n] * Product(f, n - 1)

RECURSIVE Sum(_, _)
Sum(f, n) == IF n = 0 THEN 0 ELSE f[n] + Sum(f, n - 1)

\* mutant of DdpReduceScalarAnd: the flag of the worker itself, no reduction
DdpReduceScalarAnd_Local(flags, w) == flags[w]

\* lines 345-349: the flags as 0 / 1, all_reduce with PRODUCT, the result is
\* 1; what worker w gets
DdpReduceScalarAnd(flags, w) ==
    Product([v \in Workers |-> BoolInt(flags[v])], MaxWorkers) = 1

\* lines 351-354: all_reduce with SUM; what worker w gets
DdpReduceTensorSum(t, w) == Sum(t, MaxWorkers)

\* mutant of IsFinalMicrobatch: the first microbatch is taken for the final one
IsFinalMicrobatch_First(idx, n) == idx = 0

\* line 949: is_final_microbatch = microbatch_idx + 1 == len(microbatches)
IsFinalMicrobatch(idx, n) == idx + 1 = n

\* mutant of OuterSync: the loop always runs under model.no_sync
OuterSync_Never(sync, isDDP) == FALSE

\* lines 926-929: TRUE for contextlib.nullcontext, FALSE for model.no_sync
OuterSync(sync, isDDP) == sync \/ ~isDDP

\* ddp.sync_context(state, is_final_microbatch, strategy): gradients are
\* synchronized by the backward pass of every microbatch under FORCED_SYNC,
\* of the final microbatch only under SINGLE_AUTO_SYNC
SyncContext(final, strategy) == strategy = "FORCED_SYNC" \/ final

\* lines 926-952: the backward pass of the microbatch all-reduces the
\* gradients of the workers.  Without DeepSpeed the model is wrapped in
\* DistributedDataParallel (line 328); DeepSpeed synchronizes by itself
BackwardSyncs(sync, ds, final, strategy) ==
    /\ ~ds
    /\ OuterSync(sync, ~ds)
    /\ SyncContext(final, strategy)

\* lines 948-1001: what is done for one microbatch, in order
MicrobatchOps(ugs) ==
    <<"BEFORE_FORWARD", "AFTER_FORWARD", "BEFORE_LOSS", "AFTER_LOSS",
      "BEFORE_BACKWARD">>
        \o (IF ugs THEN <<"scale">> ELSE <<>>)
        \o <<"backward", "AFTER_BACKWARD">>

\* mutant of InnerTailOps: the gradients are clipped before they are unscaled
InnerTailOps_ClipFirst(ugs, clip) ==
    (IF clip THEN <<"clip">> ELSE <<>>)
        \o (IF ugs THEN <<"unscale_">> ELSE <<>>)
        \o <<"AFTER_TRAIN_BATCH">>

\* lines 1006-1018: after the last microbatch
InnerTailOps(ugs, clip) ==
    (IF ugs THEN <<"unscale_">> ELSE <<>>)
        \o (IF clip THEN <<"clip">> ELSE <<>>)
        \o <<"AFTER_TRAIN_BATCH">>

\* mutant of UpdateDue: the scaler is never updated
UpdateDue_Never(ugs) == FALSE

\* line 888: if use_grad_scaling: state.scaler.update()
UpdateDue(ugs) == ugs

\* line 891: if total_loss is not None
LossReduceDue(none) == ~none

\* several events delivered one after the other
RunEvents(evs) ==
    /\ Emits(closed)
    /\ lastEvent' = evs[Len(evs)]
    /\ evBit' = (evBit + Len(evs)) % 2

fitVars == <<epoch, batch, iter, max_step, max_epoch, sumNb, call, trained,
             skipEpochs, stopped, ckVars, ckpt, lossVars, nStarts, nEnds, bevents>>

\* lines 256-259: the constructor fixes the sync strategy, before any event
DdpChooseStrategy ==
    /\ pc = "ctor"
    /\ ddp_sync_strategy' = SyncStrategy(strategy_arg, algorithms)
    /\ pc' = "ctor_init"
    /\ UNCHANGED <<closed, step, microbatch_idx, result, lastEvent, evBit, ops,
                   nInit, optimizers, fitVars>>
    /\ UNCHANGED <<algorithms, scaler, ddp_sync, grads_inf, found_inf, params,
                   backoffs, loss_none, collectives, synced, start>>
    /\ UNCHANGED <<cfgVars, ampVars, otherVars>>

\* lines 268, 343-361: the events of the constructor and the class of the
\* scaler; no test of scaler.is_enabled() is made here
DdpConstruct ==
    /\ pc = "ctor_init"
    /\ scaler' = ScalerClass(precision, deepspeed_enabled, amp_closure)
    /\ RunEvents(<<"INIT", "TRAINING_START">>)
    /\ nInit' = nInit + 1
    /\ optimizers' = TRUE
    /\ pc' = "idle"
    /\ UNCHANGED <<closed, step, microbatch_idx, result, ops, fitVars>>
    /\ UNCHANGED <<algorithms, ddp_sync_strategy, ddp_sync, grads_inf, found_inf,
                   params, backoffs, loss_none, collectives, synced, start>>
    /\ UNCHANGED <<cfgVars, ampVars, otherVars>>

\* lines 510-512: the setter of algorithms stores the list, nothing else
SetAlgorithms(algs) ==
    /\ pc = "idle"
    /\ algs # algorithms
    /\ algorithms' = algs
    /\ UNCHANGED <<closed, step, microbatch_idx, pc, result, lastEvent, evBit,
                   ops, nInit, optimizers, fitVars>>
    /\ UNCHANGED <<ddp_sync_strategy, scaler, ddp_sync, grads_inf, found_inf,
                   params, backoffs, loss_none, collectives, synced, start>>
    /\ UNCHANGED <<cfgVars, ampVars, otherVars>>

\* lines 856-868: the loop of fit() hands the next batch to _train_batch:
\* two events, then _use_grad_scaling, whose RuntimeError leaves fit()
\* through its except clause, which closes the engine (line 710)
TrainBatchStart ==
    /\ pc = "idle"
    /\ ~ClosedCheck(closed)
    /\ step < MaxSteps
    /\ RunEvents(<<"AFTER_DATALOADER", "BATCH_START">>)
    /\ ops' = <<"AFTER_DATALOADER", "BATCH_START">>
    /\ IF GradScalingRaises(precision, deepspeed_enabled, scaler_enabled)
       THEN /\ closed' = ClosedAfterExcept(closed)
            /\ result' = "RuntimeError"
            /\ pc' = "idle"
       ELSE /\ result' = "running"
            /\ pc' = "inner"
            /\ UNCHANGED closed
    /\ start' = [step |-> step, params |-> params, backoffs |-> backoffs]
    /\ found_inf' = NoWorker
    /\ loss_none' = NoWorker
    /\ collectives' = NoLog
    /\ synced' = {}
    /\ UNCHANGED <<step, microbatch_idx, nInit, optimizers, fitVars>>
    /\ UNCHANGED <<algorithms, ddp_sync_strategy, scaler, ddp_sync, grads_inf,
                   params, backoffs>>
    /\ UNCHANGED <<cfgVars, ampVars, otherVars>>

\* lines 869-886, 926-946: _train_batch_inner is entered, directly with
\* ddp_sync = True or, on the closure path, by the optimizer, which passes
\* the keyword arguments of its choice to the closure (lines 872-873)
InnerBegin(sync) ==
    /\ pc = "inner"
    /\ sync \/ UseClosures(precision, deepspeed_enabled, amp_closure)
    /\ ddp_sync' = sync
    /\ RunEvent("BEFORE_TRAIN_BATCH")
    /\ ops' = ops \o <<"BEFORE_TRAIN_BATCH">>
                  \o (IF deepspeed_enabled THEN <<>> ELSE <<"zero_grad">>)
    /\ grads_inf' = NoWorker
    /\ synced' = {}
    /\ microbatch_idx' = 0
    /\ pc' = "microbatch"
    /\ UNCHANGED <<closed, step, result, nInit, optimizers, fitVars>>
    /\ UNCHANGED <<algorithms, ddp_sync_strategy, scaler, found_inf, params,
                   backoffs, loss_none, collectives, start>>
    /\ UNCHANGED <<cfgVars, ampVars, otherVars>>

\* lines 948-1004: one microbatch; the backward pass overflows on the
\* workers in o, and all-reduces the accumulated gradients if it synchronizes
Microbatch(o) ==
    /\ pc = "microbatch"
    /\ LET final == IsFinalMicrobatch(microbatch_idx, grad_accum)
           syncs == BackwardSyncs(ddp_sync, deepspeed_enabled, final,
                                  ddp_sync_strategy)
           local == [w \in Workers |-> grads_inf[w] \/ w \in o]
       IN /\ grads_inf' = IF syncs
                          THEN [w \in Workers |-> \E v \in Workers : local[v]]
                          ELSE local
          /\ synced' = IF syncs THEN synced \cup {microbatch_idx} ELSE synced
          /\ collectives' = IF syncs
                            THEN [w \in Workers |->
                                    Append(collectives[w], "all_reduce_grads")]
                            ELSE collectives
          /\ pc' = IF microbatch_idx + 1 = grad_accum THEN "inner_end"
                                                      ELSE "microbatch"
    /\ RunEvents(MicrobatchEvents)
    /\ ops' = ops \o MicrobatchOps(UseGradScaling(precision, deepspeed_enabled))
    /\ microbatch_idx' = microbatch_idx + 1
    /\ UNCHANGED <<closed, step, result, nInit, optimizers, fitVars>>
    /\ UNCHANGED <<algorithms, ddp_sync_strategy, scaler, ddp_sync, found_inf,
                   params, backoffs, loss_none, start>>
    /\ UNCHANGED <<cfgVars, ampVars, otherVars>>

\* lines 1006-1020: unscale_ records per worker whether its gradients hold
\* an inf, the gradients are clipped, after-train-batch, return
InnerEnd ==
    /\ pc = "inner_end"
    /\ found_inf' = IF UseGradScaling(precision, deepspeed_enabled)
                    THEN grads_inf ELSE found_inf
    /\ RunEvent("AFTER_TRAIN_BATCH")
    /\ ops' = ops \o InnerTailOps(UseGradScaling(precision, deepspeed_enabled),
                                  ~deepspeed_enabled /\ grad_clip_norm)
    /\ pc' = "opt_step"
    /\ UNCHANGED <<closed, step, microbatch_idx, result, nInit, optimizers, fitVars>>
    /\ UNCHANGED <<algorithms, ddp_sync_strategy, scaler, ddp_sync, grads_inf,
                   params, backoffs, loss_none, collectives, synced, start>>
    /\ UNCHANGED <<cfgVars, ampVars, otherVars>>

\* GradScaler.step(optimizer): the step is applied on a worker unless
\* unscale_ found an inf there.  ClosureGradScaler.step(optimizer, closure):
\* after the closure the workers combine their findings with
\* ddp_reduce_scalar_and; the step is applied if the result is true, else the
\* loss returned is None.  DeepSpeed has applied its step inside model.step()
StepApplied(w) ==
    LET ugs == UseGradScaling(precision, deepspeed_enabled)
    IN IF ~ugs THEN TRUE
       ELSE IF UseClosures(precision, deepspeed_enabled, amp_closure)
       THEN DdpReduceScalarAnd([v \in Workers |-> ~found_inf[v]], w)
       ELSE ~found_inf[w]

\* GradScaler.update(): the scale factor is reduced on a worker if an inf
\* was found there; ClosureGradScaler sums the findings of the workers with
\* ddp_reduce_tensor_sum first
ScaleReduced(w) ==
    IF scaler = "ClosureGradScaler"
    THEN DdpReduceTensorSum([v \in Workers |-> BoolInt(found_inf[v])], w) > 0
    ELSE found_inf[w]

\* lines 869-889: the optimizer step through the scaler if scaling is
\* active, then the update of the scaler
ScalerStep ==
    /\ pc = "opt_step"
    /\ LET ugs == UseGradScaling(precision, deepspeed_enabled)
           closure == UseClosures(precision, deepspeed_enabled, amp_closure)
       IN /\ params' = [w \in Workers |-> params[w] + BoolInt(StepApplied(w))]
          /\ loss_none' = [w \in Workers |-> closure /\ ~StepApplied(w)]
          /\ collectives' = IF closure /\ ugs
                            THEN [w \in Workers |->
                                    Append(collectives[w], "overflow_reduce")]
                            ELSE collectives
          /\ backoffs' = IF UpdateDue(ugs)
                         THEN [w \in Workers |->
                                 backoffs[w] + BoolInt(ScaleReduced(w))]
                         ELSE backoffs
          /\ ops' = ops \o <<"step">>
                        \o (IF UpdateDue(ugs) THEN <<"update">> ELSE <<>>)
    /\ pc' = "loss_reduce"
    /\ UNCHANGED <<closed, step, microbatch_idx, result, lastEvent, evBit,
                   nInit, optimizers, fitVars>>
    /\ UNCHANGED <<algorithms, ddp_sync_strategy, scaler, ddp_sync, grads_inf,
                   found_inf, synced, start>>
    /\ UNCHANGED <<cfgVars, ampVars, otherVars>>

\* lines 891-898: the loss is summed over the workers, then the barrier
LossReduce ==
    /\ pc = "loss_reduce"
    /\ collectives' = [w \in Workers |->
                         IF LossReduceDue(loss_none[w])
                         THEN collectives[w] \o <<"all_reduce_loss", "barrier">>
                         ELSE collectives[w]]
    /\ pc' = "batch_end"
    /\ UNCHANGED <<closed, step, microbatch_idx, result, lastEvent, evBit, ops,
                   nInit, optimizers, fitVars>>
    /\ UNCHANGED <<algorithms, ddp_sync_strategy, scaler, ddp_sync, grads_inf,
                   found_inf, params, backoffs, loss_none, synced, start>>
    /\ UNCHANGED <<cfgVars, ampVars, otherVars>>

\* lines 903-911: batch-end, state.step += 1; the batch is trained
DdpBatchEnd ==
    /\ pc = "batch_end"
    /\ RunEvent("BATCH_END")
    /\ ops' = ops \o <<"BATCH_END">>
    /\ step' = step + 1
    /\ result' = "trained"
    /\ pc' = "idle"
    /\ UNCHANGED <<closed, microbatch_idx, nInit, optimizers, fitVars>>
    /\ UNCHANGED ddpVars
    /\ UNCHANGED <<cfgVars, ampVars, otherVars>>

\* a trainer about to be constructed on every worker: any precision, backend,
\* optimizer, strategy argument and list of algorithms
InitDdp ==
    /\ closed = FALSE
    /\ epoch = 0
    /\ step = 0
    /\ batch = NoBatch
    /\ max_epochs = 1
    /\ steps_per_epoch = MaxSteps
    /\ grad_accum \in 1..MaxMicrobatches
    /\ loaderLen = steps_per_epoch
    /\ skipPos = {}
    /\ iter = NoIter
    /\ max_step = INF
    /\ max_epoch = 0
    /\ microbatch_idx = 0
    /\ pc = "ctor"
    /\ result = "none"
    /\ lastEvent = "none"
    /\ evBit = 0
    /\ sumNb = NONE
    /\ call = NoCall
    /\ trained = <<>>
    /\ skipEpochs = {}
    /\ stopped = FALSE
    /\ checkpoint_interval_unit = "none"
    /\ checkpoint_interval = 1
    /\ validate_every_n_epochs = -1
    /\ validate_every_n_batches = -1
    /\ checkpoint_loader = FALSE
    /\ loaded = NoCkpt
    /\ ckpt = NoCkpt
    /\ rngRestores = 0
    /\ discarded = NONE
    /\ nInit = 0
    /\ optimizers = FALSE
    /\ nStarts = 0
    /\ nEnds = 0
    /\ ops = <<>>
    /\ bevents = <<>>
    /\ microbatches = <<>>
    /\ total_loss = Zero
    /\ precision \in Precisions
    /\ deepspeed_enabled \in BOOLEAN
    /\ scaler_enabled \in BOOLEAN
    /\ amp_closure \in BOOLEAN
    /\ grad_clip_norm \in BOOLEAN
    /\ strategy_arg \in {"None"} \cup Strategies
    /\ algorithms \in SUBSET AlgorithmKinds
    /\ ddp_sync_strategy = "unset"
    /\ scaler = "unset"
    /\ ddp_sync = TRUE
    /\ grads_inf = NoWorker
    /\ found_inf = NoWorker
    /\ params = NoCount
    /\ backoffs = NoCount
    /\ loss_none = NoWorker
    /\ collectives = NoLog
    /\ synced = {}
    /\ start = NoStart
    /\ tail_ops = <<>>
    /\ grads = {}
    /\ leftover = {}
    /\ NoEval
    /\ SeedGiven

NextDdp ==
    \/ DdpChooseStrategy
    \/ DdpConstruct
    \/ \E algs \in SUBSET AlgorithmKinds : SetAlgorithms(algs)
    \/ TrainBatchStart
    \/ \E sync \in BOOLEAN : InnerBegin(sync)
    \/ \E o \in SUBSET Workers : Microbatch(o)
    \/ InnerEnd
    \/ ScalerStep
    \/ LossReduce
    \/ DdpBatchEnd

SpecDdp == InitDdp /\ [][NextDdp]_vars

\* ---- trainers on the DeepSpeed backend -----------------------------------
\* the units of the checkpoint interval a caller can name, and none
IntervalUnits == {"none", "ep", "it"}

\* lines 288-289, 296-298: a checkpoint interval unit or a checkpoint file
\* path is refused when DeepSpeed is enabled
CheckpointRefused(ds, unit, path) == ds /\ (unit # "none" \/ path)

\* lines 178-370: the constructor of a DeepSpeed trainer; INIT (line 268) is
\* delivered before the checkpoint arguments are looked at, and a refused
\* argument leaves no trainer behind
DsConstruct(unit, path) ==
    /\ pc = "ctor"
    /\ nInit' = nInit + 1
    /\ optimizers' = TRUE
    /\ IF CheckpointRefused(deepspeed_enabled, unit, path)
       THEN /\ RunEvent("INIT")
            /\ result' = "NotImplementedError"
            /\ pc' = "failed"
            /\ UNCHANGED checkpoint_interval_unit
       ELSE /\ RunEvents(<<"INIT", "TRAINING_START">>)
            /\ checkpoint_interval_unit' = unit
            /\ pc' = "idle"
            /\ UNCHANGED result
    /\ UNCHANGED <<closed, epoch, step, batch, iter, max_step, max_epoch,
                   microbatch_idx, sumNb, call, trained, skipEpochs, stopped>>
    /\ UNCHANGED <<ckVars, ckpt, lossVars, nStarts, nEnds, ops, bevents>>
    /\ UNCHANGED <<max_epochs, steps_per_epoch, grad_accum, loaderLen, skipPos,
                   checkpoint_interval, validate_every_n_epochs,
                   validate_every_n_batches>>
    /\ UNCHANGED <<ampVars, ddpVars, otherVars>>

\* lines 612-614: the setter of checkpoint_interval_unit stores the unit in
\* the checkpointer; the backend is not looked at
SetCheckpointIntervalUnit(unit) ==
    /\ pc = "idle"
    /\ unit # checkpoint_interval_unit
    /\ checkpoint_interval_unit' = unit
    /\ UNCHANGED <<closed, epoch, step, batch, iter, max_step, max_epoch,
                   microbatch_idx, pc, result, lastEvent, evBit, sumNb, call,
                   trained, skipEpochs, stopped>>
    /\ UNCHANGED <<ckVars, ckpt, ctorVars, lossVars, nStarts, nEnds, ops, bevents>>
    /\ UNCHANGED <<max_epochs, steps_per_epoch, grad_accum, loaderLen, skipPos,
                   checkpoint_interval, validate_every_n_epochs,
                   validate_every_n_batches>>
    /\ UNCHANGED <<ampVars, ddpVars, otherVars>>

\* a DeepSpeed trainer about to be constructed: max_epochs and
\* steps_per_epoch at their bounds, a data source of full length, an
\* extension that skips at the first batch of an epoch or none, no evaluation
InitDs ==
    /\ closed = FALSE
    /\ epoch = 0
    /\ step = 0
    /\ batch = NoBatch
    /\ max_epochs = MaxEpochsBound
    /\ steps_per_epoch = MaxSteps
    /\ grad_accum = MaxGradAccum
    /\ loaderLen = steps_per_epoch
    /\ skipPos \in {{}, {0}}
    /\ iter = NoIter
    /\ max_step = INF
    /\ max_epoch = 0
    /\ microbatch_idx = 0
    /\ pc = "ctor"
    /\ result = "none"
    /\ lastEvent = "none"
    /\ evBit = 0
    /\ sumNb = NONE
    /\ call = NoCall
    /\ trained = <<>>
    /\ skipEpochs = {}
    /\ stopped = FALSE
    /\ checkpoint_interval_unit = "none"
    /\ checkpoint_interval = MaxInterval
    /\ validate_every_n_epochs = -1
    /\ validate_every_n_batches = -1
    /\ checkpoint_loader = FALSE
    /\ loaded = NoCkpt
    /\ ckpt = NoCkpt
    /\ rngRestores = 0
    /\ discarded = NONE
    /\ nInit = 0
    /\ optimizers = FALSE
    /\ nStarts = 0
    /\ nEnds = 0
    /\ ops = <<>>
    /\ bevents = <<>>
    /\ microbatches = <<>>
    /\ total_loss = Zero
    /\ precision = "FP32"
    /\ deepspeed_enabled = TRUE
    /\ scaler_enabled = FALSE
    /\ amp_closure = FALSE
    /\ grad_clip_norm = FALSE
    /\ strategy_arg = "None"
    /\ algorithms = {}
    /\ ddp_sync_strategy = SyncStrategy(strategy_arg, algorithms)
    /\ scaler = ScalerClass(precision, deepspeed_enabled, amp_closure)
    /\ ddp_sync = TRUE
    /\ grads_inf = NoWorker
    /\ found_inf = NoWorker
    /\ params = NoCount
    /\ backoffs = NoCount
    /\ loss_none = NoWorker
    /\ collectives = NoLog
    /\ synced = {}
    /\ start = NoStart
    /\ tail_ops = <<>>
    /\ grads = {}
    /\ leftover = {}
    /\ NoEval
    /\ SeedGiven

NextDs ==
    \/ \E unit \in IntervalUnits, path \in BOOLEAN : DsConstruct(unit, path)
    \/ \E unit \in IntervalUnits : SetCheckpointIntervalUnit(unit)
    \/ Next

SpecDs == InitDs /\ [][NextDs]_vars

\* ---- the seed of the run --------------------------------------------------
\* the seeds a caller can pass and get_random_seed() can draw
Seeds == 0..MaxSeed

\* line 184: not seed, true of None and of zero
NotSeed(sd) == sd = NONE \/ sd = 0

\* lines 184-188: a seed is drawn iff not seed
PickSeed(sd, drawn) == IF NotSeed(sd) THEN drawn ELSE sd

\* lines 184-188: the local seed is rebound to what get_random_seed() drew
SeedPick(drawn) ==
    /\ pc = "seed"
    /\ seed' = PickSeed(seed, drawn)
    /\ pc' = "seed_all"
    /\ UNCHANGED <<seed_arg, generators, trainer_seed>>
    /\ UNCHANGED <<closed, epoch, step, batch, iter, max_step, max_epoch,
                   microbatch_idx, result, lastEvent, evBit, sumNb, call,
                   trained, skipEpochs, stopped>>
    /\ UNCHANGED <<ckVars, ckpt, ctorVars, lossVars, nStarts, nEnds, ops, bevents>>
    /\ UNCHANGED <<cfgVars, ampVars, ddpVars, tail_ops, gradVars, evalVars>>

\* line 191: seed_all(seed) seeds every generator
SeedAll ==
    /\ pc = "seed_all"
    /\ generators' = seed
    /\ pc' = "seed_store"
    /\ UNCHANGED <<seed_arg, seed, trainer_seed>>
    /\ UNCHANGED <<closed, epoch, step, batch, iter, max_step, max_epoch,
                   microbatch_idx, result, lastEvent, evBit, sumNb, call,
                   trained, skipEpochs, stopped>>
    /\ UNCHANGED <<ckVars, ckpt, ctorVars, lossVars, nStarts, nEnds, ops, bevents>>
    /\ UNCHANGED <<cfgVars, ampVars, ddpVars, tail_ops, gradVars, evalVars>>

\* line 192: self.seed = seed
SeedStore ==
    /\ pc = "seed_store"
    /\ trainer_seed' = seed
    /\ pc' = "seeded"
    /\ UNCHANGED <<seed_arg, seed, generators>>
    /\ UNCHANGED <<closed, epoch, step, batch, iter, max_step, max_epoch,
                   microbatch_idx, result, lastEvent, evBit, sumNb, call,
                   trained, skipEpochs, stopped>>
    /\ UNCHANGED <<ckVars, ckpt, ctorVars, lossVars, nStarts, nEnds, ops, bevents>>
    /\ UNCHANGED <<cfgVars, ampVars, ddpVars, tail_ops, gradVars, evalVars>>

\* a constructor called with a seed or without one, at line 184
InitSeed ==
    /\ closed = FALSE
    /\ epoch = 0
    /\ step = 0
    /\ batch = NoBatch
    /\ max_epochs = 1
    /\ steps_per_epoch = 1
    /\ grad_accum = 1
    /\ loaderLen = steps_per_epoch
    /\ skipPos = {}
    /\ iter = NoIter
    /\ max_step = INF
    /\ max_epoch = 0
    /\ microbatch_idx = 0
    /\ pc = "seed"
    /\ result = "none"
    /\ lastEvent = "none"
    /\ evBit = 0
    /\ sumNb = NONE
    /\ call = NoCall
    /\ trained = <<>>
    /\ skipEpochs = {}
    /\ stopped = FALSE
    /\ checkpoint_interval_unit = "none"
    /\ checkpoint_interval = 1
    /\ validate_every_n_epochs = -1
    /\ validate_every_n_batches = -1
    /\ checkpoint_loader = FALSE
    /\ loaded = NoCkpt
    /\ ckpt = NoCkpt
    /\ rngRestores = 0
    /\ discarded = NONE
    /\ nInit = 0
    /\ optimizers = FALSE
    /\ nStarts = 0
    /\ nEnds = 0
    /\ ops = <<>>
    /\ bevents = <<>>
    /\ microbatches = <<>>
    /\ total_loss = Zero
    /\ precision = "FP32"
    /\ deepspeed_enabled = FALSE
    /\ scaler_enabled = FALSE
    /\ amp_closure = FALSE
    /\ grad_clip_norm = FALSE
    /\ strategy_arg = "None"
    /\ algorithms = {}
    /\ ddp_sync_strategy = "unset"
    /\ scaler = "unset"
    /\ ddp_sync = TRUE
    /\ grads_inf = NoWorker
    /\ found_inf = NoWorker
    /\ params = NoCount
    /\ backoffs = NoCount
    /\ loss_none = NoWorker
    /\ collectives = NoLog
    /\ synced = {}
    /\ start = NoStart
    /\ tail_ops = <<>>
    /\ grads = {}
    /\ leftover = {}
    /\ NoEval
    /\ seed_arg \in Seeds \cup {NONE}
    /\ seed = seed_arg
    /\ generators = NONE
    /\ trainer_seed = NONE

NextSeed ==
    \/ \E drawn \in Seeds : SeedPick(drawn)
    \/ SeedAll
    \/ SeedStore

SpecSeed == InitSeed /\ [][NextSeed]_vars

\* ---- trainers whose steps_per_epoch is changed ----------------------------
\* lines 620-622: the setter of train_subset_num_batches writes
\* state.steps_per_epoch; the caller uses it between epochs, when batch_idx
\* is zero
SetTrainSubsetNumBatches(n) ==
    /\ pc = "idle"
    /\ AtEpochStart(batch_idx)
    /\ n # steps_per_epoch
    /\ steps_per_epoch' = n
    /\ UNCHANGED <<closed, epoch, step, batch, iter, max_step, max_epoch,
                   microbatch_idx, pc, result, lastEvent, evBit, sumNb, call,
                   trained, skipEpochs, stopped>>
    /\ UNCHANGED <<ckVars, ckpt, ctorVars, lossVars, nStarts, nEnds, ops, bevents>>
    /\ UNCHANGED <<max_epochs, grad_accum, loaderLen, skipPos,
                   checkpoint_interval_unit, checkpoint_interval,
                   validate_every_n_epochs, validate_every_n_batches>>
    /\ UNCHANGED <<ampVars, ddpVars, otherVars>>

\* the trainer after construction without a checkpoint: max_epochs at its
\* bound, a data source as long as the longest epoch, an extension that skips
\* at the first batch of an epoch or none
InitSub ==
    /\ closed = FALSE
    /\ epoch = 0
    /\ step = 0
    /\ batch = NoBatch
    /\ max_epochs = MaxEpochsBound
    /\ steps_per_epoch \in 1..MaxSteps
    /\ grad_accum = MaxGradAccum
    /\ loaderLen = MaxSteps
    /\ skipPos \in {{}, {0}}
    /\ iter = NoIter
    /\ max_step = INF
    /\ max_epoch = 0
    /\ microbatch_idx = 0
    /\ pc = "idle"
    /\ result = "none"
    /\ lastEvent = "TRAINING_START"
    /\ evBit = 0
    /\ sumNb = NONE
    /\ call = NoCall
    /\ trained = <<>>
    /\ skipEpochs = {}
    /\ stopped = FALSE
    /\ checkpoint_interval_unit = "none"
    /\ checkpoint_interval = 1
    /\ validate_every_n_epochs = -1
    /\ validate_every_n_batches = -1
    /\ checkpoint_loader = FALSE
    /\ loaded = NoCkpt
    /\ ckpt = NoCkpt
    /\ rngRestores = 0
    /\ discarded = NONE
    /\ nInit = 1
    /\ optimizers = TRUE
    /\ nStarts = 0
    /\ nEnds = 0
    /\ ops = <<>>
    /\ bevents = <<>>
    /\ microbatches = <<>>
    /\ total_loss = Zero
    /\ NoAmp
    /\ NoEval

NextSub ==
    \/ \E n \in 1..MaxSteps : SetTrainSubsetNumBatches(n)
    \/ Next

SpecSub == InitSub /\ [][NextSub]_vars

\* ---- trainers that evaluate ------------------------------------------------
\* the trainer after construction without a checkpoint, with a model in either
\* mode and an evaluation subset of any size: max_epochs and steps_per_epoch
\* at their bounds, a data source of full length, an extension that skips at
\* the first batch of an epoch or none
InitEval ==
    /\ closed = FALSE
    /\ epoch = 0
    /\ step = 0
    /\ batch = NoBatch
    /\ max_epochs = MaxEpochsBound
    /\ steps_per_epoch = MaxSteps
    /\ grad_accum = MaxGradAccum
    /\ loaderLen = steps_per_epoch
    /\ skipPos \in {{}, {0}}
    /\ iter = NoIter
    /\ max_step = INF
    /\ max_epoch = 0
    /\ microbatch_idx = 0
    /\ pc = "idle"
    /\ result = "none"
    /\ lastEvent = "TRAINING_START"
    /\ evBit = 0
    /\ sumNb = NONE
    /\ call = NoCall
    /\ trained = <<>>
    /\ skipEpochs = {}
    /\ stopped = FALSE
    /\ checkpoint_interval_unit = "none"
    /\ checkpoint_interval = 1
    /\ validate_every_n_epochs = -1
    /\ validate_every_n_batches = -1
    /\ checkpoint_loader = FALSE
    /\ loaded = NoCkpt
    /\ ckpt = NoCkpt
    /\ rngRestores = 0
    /\ discarded = NONE
    /\ nInit = 1
    /\ optimizers = TRUE
    /\ nStarts = 0
    /\ nEnds = 0
    /\ ops = <<>>
    /\ bevents = <<>>
    /\ microbatches = <<>>
    /\ total_loss = Zero
    /\ NoAmp
    /\ training \in BOOLEAN
    /\ restore_model_train = TRUE
    /\ eval_subset_num_batches \in 0..MaxEvalBatches
    /\ eval_idx = 0
    /\ evlog = <<>>

NextEval == Eval \/ Next

SpecEval == InitEval /\ [][NextEval]_vars

TypeOK ==
    /\ closed \in BOOLEAN
    /\ epoch \in Nat
    /\ step \in Int
    /\ pc \in TryPcs \cup EvalPcs \cup {"idle"}

TypeOKCk ==
    /\ closed \in BOOLEAN
    /\ epoch \in Nat
    /\ step \in Int
    /\ pc \in TryPcs \cup CtorPcs \cup EvalPcs \cup {"idle"}
    /\ rngRestores \in 0..1


\* ==== properties ==========================================================
Skipped == iter.set /\ iter.e \in skipEpochs

\* a call to fit() has just returned normally
Returned == pc = "idle" /\ result = "returned"

\* C1: closed-run guard.  Once the engine is closed, every call to fit()
\* raises the life-cycle error before doing anything else: the engine stays
\* closed, epoch, step, batch_idx, batch and the train iterator keep their
\* values, no event is delivered and the loop is not entered.
C1_ClosedRunGuard ==
    [][closed => /\ result' = "LifecycleError"
                 /\ closed'
                 /\ pc' = "idle"
                 /\ UNCHANGED <<epoch, step, steps_per_epoch, batch, iter,
                                lastEvent, evBit, trained>>]_vars

\* fit() was called on a closed engine after some training had been done
C1_Witness == closed /\ result = "LifecycleError" /\ step > 0 /\ epoch < max_epochs

\* C2: an exception raised inside the training loop of fit() closes the
\* engine and is re-raised; from then on the run is terminal: the engine
\* stays closed and every later call to fit() fails without training.
C2_FailureCloses ==
    /\ [](result = "raised" => (closed /\ pc = "idle"))
    /\ [][closed => (closed' /\ pc' = "idle" /\ result' \in {result, "LifecycleError"})]_vars

\* an exception was raised in the middle of a batch and closed the run
C2_Witness ==
    /\ result = "raised" /\ closed
    /\ Len(trained) > step
    /\ epoch < max_epochs

\* C3: a normal return of fit() leaves the engine closed exactly when no
\* epoch remains to be trained (state.epoch has reached max_epochs), and
\* open when state.epoch < max_epochs (stated for max_epochs >= 1, a data
\* source of full length and no epoch-skip signal).
C3_ClosedIffFinished ==
    (Returned /\ max_epochs >= 1 /\ skipPos = {} /\ loaderLen >= steps_per_epoch)
        => (closed <=> epoch >= max_epochs)

\* C4: max_epochs bounds the run: state.epoch <= max_epochs always, and no
\* batch is trained once state.epoch = max_epochs (stated for max_epochs
\* >= 1, a data source of full length and no epoch-skip signal).
C4_MaxEpochsBounds ==
    (max_epochs >= 1 /\ skipPos = {} /\ loaderLen >= steps_per_epoch) =>
        /\ epoch <= max_epochs
        /\ pc \in BatchEvents => epoch < max_epochs


\* C5: termination.  Every call to fit() eventually returns or raises
\* (stated for the calls whose epoch budget lies within max_epochs).
C5_FitTerminates == (pc # "idle" /\ max_epoch <= max_epochs) ~> (pc = "idle")

\* C6: early exhaustion stops the epoch.  When the data source yields fewer
\* than steps_per_epoch batches and the iterator is exhausted, the next
\* thing fit() does is the end-of-epoch handling.
C6_ExhaustionEndsEpoch ==
    [][(/\ loaderLen < steps_per_epoch /\ skipPos = {} /\ epoch < max_epochs
        /\ pc = "after_inner" /\ stopped /\ pc' # "idle")
          => pc' = "EPOCH_END"]_vars

\* C7: epoch-skip signal.  After the signal was caught for an epoch, step is
\* at the next epoch boundary and no further batch of that epoch's iterator
\* is pulled or trained before the end-of-epoch handling.
C7_SkipEndsEpoch ==
    (Skipped /\ loaderLen >= steps_per_epoch /\ epoch < max_epochs) =>
               /\ pc \notin BatchEvents \cup {"step", "tail"}
               /\ step = (iter.e + 1) * steps_per_epoch

\* batches of a skipped epoch that were never handed to _train_batch
Executed(e) == Cardinality({i \in 1..Len(trained) : trained[i].e = e})

RECURSIVE SumUnexecuted(_)
SumUnexecuted(S) ==
    IF S = {} THEN 0
    ELSE LET e == CHOOSE x \in S : TRUE
         IN (steps_per_epoch - Executed(e)) + SumUnexecuted(S \ {e})

Max(a, b) == IF a > b THEN a ELSE b

\* C8: step counts batches.  When fit() returns, state.step is the number
\* of batches executed plus, for each skipped epoch, the number of its
\* batches that were not executed; a call fit(num_batches = n) without
\* epoch-skip executes min(n, batches remaining until max_epochs) batches
\* and raises state.step by that amount.
C8_StepCountsBatches ==
    (Returned /\ loaderLen >= steps_per_epoch /\ epoch <= max_epochs) =>
        /\ step = Len(trained) + SumUnexecuted(skipEpochs)
        /\ (skipPos = {} /\ call.nb # NONE) =>
              LET n == Min(call.nb,
                           Max(0, max_epochs * steps_per_epoch - call.step0))
              IN /\ Len(trained) - call.trained0 = n
                 /\ step - call.step0 = n

\* C9: at every observation point (a normal return of fit(), an event
\* delivered to the extensions) state.batch_idx = state.step mod
\* steps_per_epoch (stated for calls budgeted within max_epochs, a data source
\* of full length, in which no epoch-skip signal is raised).
C9_BatchIdxIsStepMod ==
    (/\ Returned \/ pc \in EventPcs
     /\ skipPos = {} /\ loaderLen >= steps_per_epoch /\ max_epoch <= max_epochs)
        => batch_idx = step % steps_per_epoch


\* ---- a single call fit(num_batches = n), as a function -------------------
\* lines 692-702: the inner loop, one batch per unfolding
RECURSIVE SimInner(_, _)
SimInner(s, ms) ==
    IF ~(s.step < ms) \/ Exhausted(s.iter, loaderLen) THEN s
    ELSE LET b  == [e |-> s.iter.e, p |-> s.iter.pos]
             bi == BatchIdx(s.step, s.epoch, steps_per_epoch)
         IN SimInner([s EXCEPT !.iter.pos = @ + 1,
                               !.trained = Append(@, b),
                               !.step = IF b.p \in skipPos
                                        THEN @ + (steps_per_epoch - bi)
                                        ELSE @ + 1], ms)

\* lines 671-706: the outer loop, one iteration per unfolding; an iteration
\* that changes nothing repeats forever (div)
RECURSIVE SimOuter(_, _)
SimOuter(s, ms) ==
    IF ~(s.epoch < max_epochs /\ s.step < ms) THEN s
    ELSE LET s1 == IF AtEpochStart(BatchIdx(s.step, s.epoch, steps_per_epoch))
                   THEN [s EXCEPT !.iter = NewIter(s.epoch, steps_per_epoch)]
                   ELSE s
             s2 == SimInner(s1, ms)
             s3 == IF AtEpochEnd(BatchIdx(s2.step, s2.epoch, steps_per_epoch),
                                 steps_per_epoch)
                   THEN [s2 EXCEPT !.epoch = @ + 1, !.iter = NoIter]
                   ELSE s2
         IN IF s3 = s THEN [s EXCEPT !.div = TRUE] ELSE SimOuter(s3, ms)

\* fit(num_batches = n) called on the freshly constructed trainer
FitSim(n) ==
    SimOuter([epoch |-> 0, step |-> 0, iter |-> NoIter, trained |-> <<>>,
              div |-> FALSE], MaxStep(0, n))

\* every call made so far was fit(num_batches = n), and the batches asked
\* for fit into the budget max_epochs * steps_per_epoch
OnlyNumBatches == sumNb # NONE

\* the epoch-skip signal never left a batch of the skipped epoch to be pulled
SkipEndedEpoch(tr) ==
    \A i \in 1..Len(tr) :
        tr[i].p \in skipPos => (i = Len(tr) \/ tr[i + 1].e # tr[i].e)

SameAsSingleFit(r) ==
    /\ ~r.div
    /\ epoch = r.epoch
    /\ step = r.step
    /\ iter = r.iter
    /\ trained = r.trained

\* C10 as claimed: successive calls fit(num_batches = a), fit(num_batches =
\* b) within the budget and without failure train the same sequence of
\* batches and end in the same epoch, step, batch_idx and iterator as the
\* single call fit(num_batches = a + b).
C10_FitComposes_Claimed ==
    LET r == FitSim(sumNb)
    IN (/\ Returned /\ OnlyNumBatches
        /\ loaderLen >= steps_per_epoch
        /\ ~r.div /\ SkipEndedEpoch(r.trained) /\ SkipEndedEpoch(trained))
          => SameAsSingleFit(r)

\* C10 amended: the same, for runs in which no epoch-skip signal is raised.
C10_FitComposes ==
    (Returned /\ OnlyNumBatches /\ skipPos = {})
        => SameAsSingleFit(FitSim(sumNb))

\* two calls, the first of which stopped in the middle of an epoch, the
\* second of which went over the end of that epoch
C10_Witness ==
    /\ Returned /\ OnlyNumBatches /\ skipPos = {}
    /\ call.step0 % steps_per_epoch # 0
    /\ call.epoch0 < epoch
    /\ batch_idx # 0


\* the calls fit(num_batches = n) of a sequence return whenever the single
\* call for their sum does (no epoch-skip signal raised)
FitComposesTerminates ==
    (pc # "idle" /\ OnlyNumBatches /\ skipPos = {} /\ ~FitSim(sumNb).div)
        ~> (pc = "idle")


\* ==== whole epochs, checkpoints, events (C11-C20) ==========================
\* what fit(num_epochs = k) promises on return
WholeEpochsDone ==
    /\ epoch = call.epoch0 + call.ne
    /\ batch_idx = 0
    /\ nEnds - call.ends0 = call.ne

\* the running call is fit(num_epochs = k) with state.epoch + k <= max_epochs
EpochsCall == call.ne # NONE /\ call.epoch0 + call.ne <= max_epochs

\* C11: fit(num_epochs = k), called at an epoch boundary with state.epoch +
\* k <= max_epochs, trains exactly k whole epochs: unless it fails it
\* returns, and then state.epoch has grown by exactly k, batch_idx is 0 and
\* the end-of-epoch handling has run exactly k times.
C11_WholeEpochs ==
    (pc # "idle" /\ EpochsCall)
        ~> (pc = "idle" /\ (Returned => WholeEpochsDone))

\* every return of such a call is as promised
WholeEpochsWhenReturned == (Returned /\ EpochsCall) => WholeEpochsDone

\* ---- checkpoints ----------------------------------------------------------
\* batch_idx of the checkpoint this trainer was constructed from
LoadedIdx == BatchIdx(loaded.step, loaded.epoch, steps_per_epoch)

\* the checkpoint was taken inside an epoch: a partially trained epoch
MidEpoch == loaded.saved /\ 0 < LoadedIdx /\ LoadedIdx < steps_per_epoch

\* C12: mid-epoch resume replay.  After a checkpoint with batch_idx = k, 0 <
\* k < steps_per_epoch, was loaded, the replay builds a fresh iterator
\* bounded to steps_per_epoch and discards exactly k batches, no epoch-start
\* event is delivered for the partially trained epoch, and the first batch
\* trained is the batch at position k of that epoch, the (k+1)-th.
C12_ResumeReplay ==
    MidEpoch =>
        /\ discarded \in {NONE, LoadedIdx}
        /\ trained # <<>> =>
              /\ discarded = LoadedIdx
              /\ trained[1] = [e |-> loaded.epoch, p |-> LoadedIdx]
        /\ (discarded # NONE /\ epoch = loaded.epoch) =>
              /\ iter.set /\ iter.e = loaded.epoch
              /\ iter.limit = steps_per_epoch
              /\ nStarts = 0

\* a trainer resumed in the middle of the second epoch has trained a batch
C12_Witness ==
    /\ MidEpoch /\ loaded.epoch = 1
    /\ discarded = LoadedIdx
    /\ trained # <<>>
    /\ pc = "tail"

\* C13: the random state of a checkpoint is restored exactly once per loaded
\* checkpoint and before the first batch trained after the load: at the end
\* of construction when the checkpoint has batch_idx = 0, otherwise after
\* the replay in fit(); never twice, never without a checkpoint.
C13_RngRestoredOnce ==
    /\ rngRestores <= 1
    /\ ~loaded.saved => rngRestores = 0
    /\ (loaded.saved /\ trained # <<>>) => rngRestores = 1
    /\ (loaded.saved /\ LoadedIdx = 0 /\ pc \notin CtorPcs) => rngRestores = 1
    /\ (loaded.saved /\ LoadedIdx # 0) =>
            (rngRestores = 1 <=> (pc \notin CtorPcs /\ discarded = LoadedIdx))
    /\ rngRestores = 1 => ~checkpoint_loader

\* resumed in the middle of an epoch, trained into the next epoch: one restore
C13_Witness ==
    /\ loaded.saved /\ LoadedIdx # 0
    /\ rngRestores = 1
    /\ epoch > loaded.epoch
    /\ pc \in BatchEvents

\* the trainer constructed from a checkpoint has not been used yet
JustLoaded == loaded.saved /\ pc = "idle" /\ call = NoCall

\* the state in which the run that saved the checkpoint went on
SameAsSaved == epoch = loaded.epoch /\ step = loaded.step /\ iter = loaded.it

\* C14: checkpoint round-trip.  A trainer constructed from a checkpoint taken
\* at (epoch e, batch_idx k) has epoch e and batch_idx k, and at its first
\* batch boundary (after construction for k = 0, after the replay otherwise)
\* it is in the state (epoch, step, iterator) in which the run that saved
\* the checkpoint went on, so that both go through the same sequence of
\* batches and events from there; the replay does not fail.
C14_RoundTrip ==
    /\ [](JustLoaded => (epoch = loaded.epoch /\ batch_idx = LoadedIdx))
    /\ []((JustLoaded /\ LoadedIdx = 0) => SameAsSaved)
    /\ [][(discarded = NONE /\ discarded' # NONE) =>
            (result' # "StopIteration" /\ SameAsSaved')]_vars

\* the round trip of the runs in which no epoch-skip signal is raised
RoundTripWithoutSkip ==
    /\ []((skipPos = {} /\ JustLoaded) =>
            (epoch = loaded.epoch /\ batch_idx = LoadedIdx))
    /\ []((skipPos = {} /\ JustLoaded /\ LoadedIdx = 0) => SameAsSaved)
    /\ [][(skipPos = {} /\ discarded = NONE /\ discarded' # NONE) =>
            (result' # "StopIteration" /\ SameAsSaved')]_vars

\* C15: every checkpoint saved, at batch end or at epoch end, records a state
\* with 0 <= batch_idx < steps_per_epoch (stated for the runs in which no
\* epoch-skip signal is raised).
C15_CheckpointIdxInRange ==
    (ckpt.saved /\ skipPos = {}) =>
        LET k == BatchIdx(ckpt.step, ckpt.epoch, steps_per_epoch)
        IN 0 <= k /\ k < steps_per_epoch

\* ---- events ---------------------------------------------------------------
RECURSIVE Repeat(_, _)
Repeat(q, n) == IF n = 0 THEN <<>> ELSE q \o Repeat(q, n - 1)

\* the events of a trained batch with grad_accum = n
ExpectedBatchEvents(n) ==
    <<"AFTER_DATALOADER", "BATCH_START", "BEFORE_TRAIN_BATCH">>
        \o Repeat(MicrobatchEvents, n)
        \o <<"AFTER_TRAIN_BATCH", "BATCH_END">>

\* a batch is being trained
InBatch == pc \in BatchEvents \cup {"step"}

\* C16: per-batch event sequence.  For every trained batch the events
\* delivered are after-dataloader, batch-start, before-train-batch, then for
\* each of the grad_accum microbatches before-forward, after-forward,
\* before-loss, after-loss, before-backward, after-backward, then
\* after-train-batch and batch-end, and every event delivered while the batch
\* is trained is the next one of this sequence.
C16_BatchEventOrder ==
    /\ [](pc = "tail" => bevents = ExpectedBatchEvents(grad_accum))
    /\ [][(InBatch /\ evBit' # evBit) =>
            /\ Len(bevents) < Len(ExpectedBatchEvents(grad_accum))
            /\ lastEvent' = ExpectedBatchEvents(grad_accum)[Len(bevents) + 1]]_vars

\* a batch of two or more microbatches has been trained
C16_Witness == pc = "tail" /\ grad_accum >= 2 /\ step >= 1

\* what _epoch_end() does, given what was due
ExpectedEpochEnd(evalDue, saveDue) ==
    <<"scheduler.step", "EPOCH_END">>
        \o (IF evalDue THEN <<"eval">> ELSE <<>>)
        \o <<"epoch += 1">>
        \o (IF saveDue THEN <<"checkpoint">> ELSE <<>>)
        \o <<"iterator = None">>

\* the end-of-epoch handling has just returned
EpochEnded == pc = "loop" /\ ops # <<>>

\* C17: end-of-epoch order.  The handling steps every scheduler at epoch
\* granularity, then delivers epoch-end, then runs the evaluation pass if
\* due, then increments epoch, then saves the checkpoint if due (which so
\* records the incremented epoch); afterwards batch_idx is 0 and the
\* iterator is discarded.
C17_EpochEndOrder ==
    /\ pc = "EPOCH_END" => ops = <<"scheduler.step">>
    /\ EpochEnded =>
          LET saveDue == ShouldCheckpoint(checkpoint_interval_unit,
                                          checkpoint_interval, "EPOCH_END",
                                          epoch, step)
          IN /\ ops = ExpectedEpochEnd(EvalDue(validate_every_n_epochs, epoch - 1),
                                       saveDue)
             /\ saveDue => ckpt = Snapshot(epoch, step, NoIter)
             /\ batch_idx = 0
             /\ iter = NoIter

\* an epoch ended with evaluation and checkpoint
C17_Witness ==
    /\ EpochEnded
    /\ Len(ops) = 6
    /\ ckpt.saved /\ ckpt.epoch = epoch

\* C18: epoch events pair up.  Epoch-start and epoch-end alternate, beginning
\* with epoch-start; every batch is trained between the epoch-start and the
\* epoch-end of its epoch; an epoch left open when fit() returns has batches
\* left (its epoch-end follows its last batch, also when it was cut short).
C18_EpochEventsPair ==
    /\ nStarts - nEnds \in {0, 1}
    /\ pc \in BatchEvents => (nStarts = nEnds + 1 /\ batch.e = epoch)
    /\ (Returned /\ nStarts > nEnds) => batch_idx < steps_per_epoch

\* the pairing in the runs in which no epoch-skip signal is raised
EpochEventsPairWithoutSkip == skipPos = {} => C18_EpochEventsPair

\* C19: the INIT event is delivered exactly once per trainer, during
\* construction, before any optimizer or scheduler is created, and never by
\* fit() or eval().
C19_InitOnce ==
    /\ [](nInit <= 1 /\ (pc \notin CtorPcs => nInit = 1))
    /\ [][nInit' > nInit => (~optimizers /\ pc \in CtorPcs)]_vars
    /\ [][(evBit' # evBit /\ lastEvent' = "INIT") => nInit' = nInit + 1]_vars

\* a trainer constructed from a checkpoint has trained
C19_Witness ==
    /\ nInit = 1 /\ optimizers
    /\ loaded.saved
    /\ pc = "idle" /\ Returned /\ trained # <<>>

\* ---- loss -----------------------------------------------------------------
RECURSIVE SumLosses(_)
SumLosses(mbs) ==
    IF mbs = <<>> THEN 0 ELSE SumSeq(Head(mbs)) + SumLosses(Tail(mbs))

\* sum over the microbatches of (b_i / B) * l_i, where b_i * l_i is the sum of
\* the losses of the samples of microbatch i: the mean loss of the batch
WeightedLoss(mbs) == [n |-> SumLosses(mbs), d |-> CurrentBatchSize(mbs)]

\* C20: loss additivity.  For a batch split into microbatches of sizes b_1 ..
\* b_N (sum B) with mean losses l_1 .. l_N the total loss returned is the sum
\* of (b_i / B) * l_i, the mean loss of the batch, whatever N and also when
\* the sizes are uneven.
C20_LossAdditivity ==
    pc = "loss_done" => Same(total_loss, WeightedLoss(microbatches))

\* two microbatches of different sizes and different mean losses
C20_Witness ==
    /\ pc = "loss_done"
    /\ Len(microbatches) = 2
    /\ Len(microbatches[1]) # Len(microbatches[2])
    /\ ~Same(MeanLoss(microbatches[1]), MeanLoss(microbatches[2]))

\* ---- distributed run -------------------------------------------------------
\* the microbatches whose backward pass synchronizes, for a batch of n
\* microbatches with indices 0..n-1
SyncedMicrobatches(strategy, n) ==
    IF strategy = "FORCED_SYNC" THEN 0..(n - 1) ELSE {n - 1}

\* the loop over the microbatches of _train_batch_inner has ended on a run
\* whose model is wrapped in DistributedDataParallel
LoopDone == pc = "inner_end" /\ ~deepspeed_enabled

C22_UnusedForcesEverySync ==
    (pc # "ctor" /\ find_unused_parameters(algorithms))
        => ddp_sync_strategy = "FORCED_SYNC"

\* scaling is active for the batch
Scaling == UseGradScaling(precision, deepspeed_enabled)

\* unscale_ found an inf in the gradients of some worker
Overflow == \E w \in Workers : found_inf[w]

\* the optimizer step of the batch has been made or skipped
AfterStep == pc \in {"loss_reduce", "batch_end"} \/ (pc = "idle" /\ result = "trained")

\* the batch has ended
BatchDone == pc = "idle" /\ result = "trained"

\* C23: overflow skip.  When scaling is active and the gradients of a batch
\* overflow, the parameters of every worker are what they were when the
\* batch began, the scaler update has reduced the scale factor, and the
\* batch ends with the batch-end event and step one higher.
C23_OverflowSkip ==
    /\ (AfterStep /\ Scaling /\ Overflow) =>
            \A w \in Workers : /\ params[w] = start.params[w]
                               /\ backoffs[w] > start.backoffs[w]
    /\ (BatchDone /\ Scaling /\ Overflow) =>
            /\ ops[Len(ops)] = "BATCH_END"
            /\ step = start.step + 1

\* the second batch overflowed after a first batch that did not
C23_Witness ==
    /\ BatchDone /\ Scaling /\ Overflow
    /\ step = 2
    /\ \A w \in Workers : params[w] = 1 /\ backoffs[w] = 1

\* the optimizer step of the batch was applied on worker w
Stepped(w) == params[w] = start.params[w] + 1

\* C24: cross-worker overflow agreement.  With scaling active, the optimizer
\* step of a batch is applied on all workers or on none, and an overflow
\* found on one worker leaves the parameters of every worker unchanged, on
\* the closure path and on the path without closure.
C24_OverflowAgreement ==
    (AfterStep /\ Scaling) =>
        /\ \A w, v \in Workers : Stepped(w) <=> Stepped(v)
        /\ Overflow => \A w \in Workers : ~Stepped(w)
        /\ \A w \in Workers : params[w] \in {start.params[w], start.params[w] + 1}

\* an overflow seen by one worker only (closure path, gradients not
\* synchronized) has left the parameters of all workers unchanged
C24_Witness ==
    /\ AfterStep /\ Scaling
    /\ \E w, v \in Workers : found_inf[w] /\ ~found_inf[v]
    /\ \A w \in Workers : ~Stepped(w)

\* C25: lock-step collectives.  At every point of a batch the workers have
\* issued the same sequence of blocking collectives (gradient all-reduce,
\* overflow-check reduce, loss all-reduce, barrier); the loss all-reduce and
\* the barrier are executed by all workers or skipped by all.
C25_LockStepCollectives ==
    /\ \A w, v \in Workers : collectives[w] = collectives[v]
    /\ \A w, v \in Workers : loss_none[w] = loss_none[v]

\* after an overflow on one worker all workers made the overflow-check
\* reduce and none entered the loss all-reduce or the barrier
C25_Witness ==
    /\ pc = "batch_end"
    /\ \E w, v \in Workers : found_inf[w] /\ ~found_inf[v]
    /\ \A w \in Workers :
          /\ collectives[w] # <<>>
          /\ collectives[w][Len(collectives[w])] = "overflow_reduce"

\* C26: auto-mixed precision on a backend whose scaler is not enabled is
\* refused by the constructor: no trainer with this configuration is ever
\* returned, and no batch event is delivered for it.
C26_AmpErrorAtConstruction ==
    (precision = "AMP" /\ ~scaler_enabled) => (pc = "ctor" /\ ops = <<>>)

\* the operations of the gradient scale controller
ScalingOps == {"scale", "unscale_", "update"}

\* the operations of the scale controller made for the batch so far
ScalingDone == {ops[i] : i \in 1..Len(ops)} \cap ScalingOps

ScaledMicrobatch ==
    <<"BEFORE_FORWARD", "AFTER_FORWARD", "BEFORE_LOSS", "AFTER_LOSS",
      "BEFORE_BACKWARD", "scale", "backward", "AFTER_BACKWARD">>

\* a batch of n microbatches when scaling is active, up to the optimizer step
ScaledBatch(n, clip) ==
    <<"AFTER_DATALOADER", "BATCH_START", "BEFORE_TRAIN_BATCH", "zero_grad">>
        \o Repeat(ScaledMicrobatch, n)
        \o <<"unscale_">>
        \o (IF clip THEN <<"clip">> ELSE <<>>)
        \o <<"AFTER_TRAIN_BATCH", "step", "update">>

\* C28: scaling order.  When scaling is active the loss of each microbatch
\* is scaled after before-backward and before its backward pass; the
\* gradients are unscaled once, after the last backward pass and before they
\* are clipped, before after-train-batch and before the optimizer step is
\* applied.
C28_ScalingOrder ==
    (pc = "loss_reduce" /\ Scaling) => ops = ScaledBatch(grad_accum, grad_clip_norm)

\* several microbatches, clipping on, the closure path
C28_Witness ==
    /\ pc = "loss_reduce" /\ Scaling
    /\ grad_accum = MaxMicrobatches /\ grad_clip_norm
    /\ scaler = "ClosureGradScaler"

\* C29: after the run is closed no event reaches an extension, whichever
\* public operation is called: fit() raises at its guard, and eval(), which
\* has no guard of its own, fails at the first event it asks the closed
\* dispatcher for.  Every delivery flips evBit.
C29_NoEventAfterClose ==
    [][(closed /\ closed') => (evBit' = evBit /\ lastEvent' = lastEvent)]_vars

\* a call on the closed run raised the life-cycle error; the last event the
\* extensions saw is the end of an evaluation made while the run was open
C29_Witness ==
    /\ closed /\ pc = "idle"
    /\ result = "LifecycleError"
    /\ lastEvent = "EVAL_END" /\ step > 0

\* C30: validation cadence.  The batch-level evaluation pass runs in the tail
\* of a batch exactly when validate_every_n_batches = n > 0 and the number of
\* batches then completed (state.step after its increment) is a multiple of
\* n; the epoch-level pass runs in the end-of-epoch handling exactly when
\* validate_every_n_epochs = m > 0 and epoch + 1 is a multiple of m; fit()
\* evaluates nowhere else, so with -1 no pass of that kind ever runs.
C30_ValidationCadence ==
    /\ [][(pc = "tail" /\ pc' = "next") =>
            ((lastEvent' = "EVAL_END") <=>
                (validate_every_n_batches > 0
                    /\ step' % validate_every_n_batches = 0))]_vars
    /\ [][(pc = "eval_epoch" /\ pc' = "epoch_inc") =>
            ((lastEvent' = "EVAL_END") <=>
                (validate_every_n_epochs > 0
                    /\ (epoch + 1) % validate_every_n_epochs = 0))]_vars
    /\ [][(lastEvent' = "EVAL_END" /\ lastEvent # "EVAL_END") =>
            \/ pc = "tail" /\ validate_every_n_batches # -1
            \/ pc = "eval_epoch" /\ validate_every_n_epochs # -1
            \/ pc = "EVAL_END"]_vars

\* the first batch-level pass has just run, after as many batches as the
\* cadence says and not after the first batch; the epoch-level pass is not
\* due at the end of the first epoch
C30_Witness ==
    /\ pc = "next" /\ lastEvent = "EVAL_END"
    /\ validate_every_n_batches > 1 /\ validate_every_n_epochs > 1
    /\ step = validate_every_n_batches /\ Len(trained) = step

\* ---- argument errors of fit() ---------------------------------------------
\* a call to fit() has just raised its value error
ValueErrorRaised == result' = "ValueError" /\ result # "ValueError"

\* C31: a fit() call rejected for its arguments (both num_batches and
\* num_epochs, or num_epochs in the middle of an epoch) raises a value error
\* and changes nothing else: epoch, step, batch_idx and the iterator are as
\* before, no event is delivered, the engine stays open, and a fit() call with
\* proper arguments can be made afterwards
C31_BadArgsNoEffect ==
    /\ [][ValueErrorRaised =>
            /\ UNCHANGED <<epoch, step, batch, iter, steps_per_epoch>>
            /\ UNCHANGED <<lastEvent, evBit, nStarts, nEnds, bevents, ops>>
            /\ UNCHANGED <<closed, pc>>
            /\ ~closed]_vars
    /\ [](result = "ValueError" => ENABLED FitEnter(1, NONE))

\* the error was raised in the middle of an epoch, after some training
C31_Witness ==
    /\ result = "ValueError"
    /\ batch_idx # 0
    /\ step > 0
    /\ ~closed
    /\ iter.set

\* ---- checkpoints and DeepSpeed -------------------------------------------
\* C32: under the DeepSpeed backend no checkpoint is ever saved or loaded,
\* at construction or later, also after the setter of
\* checkpoint_interval_unit was used
C32_NoCheckpointUnderDeepSpeed ==
    deepspeed_enabled => ~ckpt.saved /\ ~loaded.saved /\ ~checkpoint_loader

\* the constructor's half of C32: a trainer leaves the constructor of a
\* DeepSpeed run without a checkpoint unit and without a loaded checkpoint
DsConstructedWithoutCheckpoint ==
    [][(pc = "ctor" /\ pc' = "idle" /\ deepspeed_enabled) =>
         checkpoint_interval_unit' = "none" /\ ~loaded'.saved]_vars

\* ---- the seed ------------------------------------------------------------
\* C33: a seed supplied by the caller is the seed the run uses: the
\* generators are seeded with it and self.seed holds it
C33_SeedTaken ==
    (pc = "seeded" /\ seed_arg # NONE) =>
        generators = seed_arg /\ trainer_seed = seed_arg

\* the other half of C33 as the code has it: what seeds the generators is
\* what self.seed holds, and a seed other than zero is taken as passed
SeedTakenUnlessZero ==
    pc = "seeded" =>
        /\ generators = trainer_seed
        /\ ~NotSeed(seed_arg) => trainer_seed = seed_arg

\* ---- the choice of the sync strategy -------------------------------------
\* C34: when ddp_sync_strategy is not passed, the constructor chooses
\* final-only synchronization if no registered algorithm reports
\* find_unused_parameters and synchronization on every microbatch otherwise;
\* the choice is made once, before INIT is delivered, and no batch trained
\* by fit() changes it
C34_StrategyChosenOnce ==
    /\ [][ddp_sync_strategy' # ddp_sync_strategy =>
            /\ ddp_sync_strategy = "unset"
            /\ nInit = 0 /\ nInit' = 0
            /\ lastEvent' = "none"
            /\ strategy_arg = "None" =>
                 ddp_sync_strategy' = IF \E a \in algorithms : a = "unused"
                                      THEN "FORCED_SYNC"
                                      ELSE "SINGLE_AUTO_SYNC"]_vars
    /\ [](nInit > 0 => ddp_sync_strategy \in Strategies)

\* a batch was trained by a trainer whose strategy was derived from an
\* algorithm that reports find_unused_parameters
C34_Witness ==
    /\ strategy_arg = "None"
    /\ ddp_sync_strategy = "FORCED_SYNC"
    /\ result = "trained"
    /\ step > 0

\* ---- the tail of a batch -------------------------------------------------
\* operation a occurs in the log q
Has(q, a) == \E i \in 1..Len(q) : q[i] = a

\* every occurrence of a in the log q precedes every occurrence of b
Before(q, a, b) ==
    \A i, j \in 1..Len(q) : (q[i] = a /\ q[j] = b) => i < j

\* the tail of a batch has run to its end
TailDone == pc = "next" /\ tail_ops # <<>>

\* C35: the tail of a batch is ordered: the optimizer step, then the
\* batch-end event, then the scheduler step, then the evaluation pass if one
\* is due, then the increment of state.step, and only then the checkpoint
\* decision, which sees the incremented step
C35_TailOrder ==
    TailDone =>
        /\ \A a \in {"optimizer_step", "BATCH_END", "scheduler_step", "step_inc",
                      "should_checkpoint"} : Has(tail_ops, a)
        /\ Before(tail_ops, "optimizer_step", "BATCH_END")
        /\ Before(tail_ops, "BATCH_END", "scheduler_step")
        /\ Before(tail_ops, "scheduler_step", "eval")
        /\ Before(tail_ops, "scheduler_step", "step_inc")
        /\ Before(tail_ops, "eval", "step_inc")
        /\ Before(tail_ops, "step_inc", "should_checkpoint")
        /\ Before(tail_ops, "should_checkpoint", "save_checkpoint")
        /\ Has(tail_ops, "save_checkpoint") => ckpt.saved /\ ckpt.step = step

\* a batch whose tail ran an evaluation pass and saved a checkpoint
C35_Witness ==
    /\ TailDone
    /\ Has(tail_ops, "eval")
    /\ Has(tail_ops, "save_checkpoint")
    /\ step > 1

\* ---- the iterator assertions of fit() ------------------------------------
\* line 683 is about to be evaluated: the loop goes on in the middle of an
\* epoch with a checkpoint pending
AtReplayAssert ==
    pc = "loop" /\ LoopCond /\ ~AtEpochStart(batch_idx) /\ checkpoint_loader

\* line 690 is about to be evaluated with the iterator left as it was
AtIteratorAssert ==
    pc = "loop" /\ LoopCond /\ ~AtEpochStart(batch_idx) /\ ~checkpoint_loader

\* C36: the assertions of fit() on the train iterator hold whenever they are
\* evaluated: the iterator is unset when a pending checkpoint is replayed in
\* the middle of an epoch (line 683) and set when fit() goes on to pull a
\* batch (line 690), also after steps_per_epoch was changed between epochs
C36_IteratorAssertions ==
    /\ AtReplayAssert => ~iter.set
    /\ AtIteratorAssert => iter.set
    /\ pc = "next" => iter.set

\* ---- gradients across batches --------------------------------------------
\* the optimizer step of a batch is about to run on the standard path
AtOptimizerStep == pc = "step" /\ ~deepspeed_enabled

\* C37: on the standard path the gradients an optimizer step applies come
\* from the batch being trained only: they were zeroed before its first
\* backward pass, so nothing accumulated in an aborted batch is applied
C37_NoGradientLeak ==
    /\ AtOptimizerStep => grads = {batch}
    /\ (pc \in {"BEFORE_FORWARD", "AFTER_FORWARD", "BEFORE_LOSS", "AFTER_LOSS",
                 "BEFORE_BACKWARD"} /\ microbatch_idx = 0 /\ ~deepspeed_enabled)
           => grads = {}

\* the batch about to be stepped began with gradients left by a batch that
\* the epoch-skip signal had aborted after a backward pass
C37_Witness ==
    /\ AtOptimizerStep
    /\ leftover # {}
    /\ \A b \in leftover : b.p \in skipPos
    /\ grad_accum >= 2

\* ---- training-start and training-end ---------------------------------------
\* this step delivers event ev as its last event
Delivered(ev) == lastEvent' = ev /\ (lastEvent # ev \/ evBit' # evBit)

\* this step is the return of a call to fit()
FitReturns == pc \in TryPcs /\ pc' = "idle" /\ result' = "returned"

\* this step is a call to fit() raising
FitRaises ==
    /\ pc' = "idle"
    /\ result' \in {"raised", "StopIteration", "ValueError", "LifecycleError"}
    /\ result' # result \/ pc # "idle"

\* C38: TRAINING_START is delivered once per trainer, by its constructor;
\* TRAINING_END is delivered by the step on which a call to fit() returns,
\* once for every call that returns normally, wherever it stops, and by no
\* other step, so a call that raises delivers none
C38_StartOnceEndPerCall ==
    /\ [][Delivered("TRAINING_START") =>
            pc = "TRAINING_START" /\ pc' = "idle" /\ result' = "none"]_vars
    /\ [][(pc \in CtorPcs /\ pc' \notin CtorPcs) =>
            Delivered("TRAINING_START")]_vars
    /\ [][(pc' \in CtorPcs /\ pc \notin CtorPcs) => nInit' = 0]_vars
    /\ [][FitReturns => Delivered("TRAINING_END")]_vars
    /\ [][Delivered("TRAINING_END") => FitReturns]_vars
    /\ [][FitRaises => ~Delivered("TRAINING_END")]_vars

\* a call to fit() returned in the middle of an epoch, before max_epochs,
\* after an earlier call had returned too
C38_Witness ==
    /\ Returned
    /\ lastEvent = "TRAINING_END"
    /\ batch_idx # 0
    /\ epoch < max_epochs
    /\ ~closed
    /\ call.step0 > 0

\* ---- the evaluation pass ---------------------------------------------------
\* this step is taken by eval()
EvalStep == (pc = "idle" /\ pc' \in EvalPcs) \/ pc \in EvalPcs

\* this step ends an evaluation pass
EvalReturns == pc = "EVAL_END" /\ pc' = "idle"

\* the events of an evaluation pass over n batches
ExpectedEvalEvents(n) ==
    <<"EVAL_START">> \o Repeat(EvalBatchEvents, n) \o <<"EVAL_END">>

\* C39: an evaluation pass changes neither epoch, step, batch_idx, the train
\* iterator nor the open/closed status of the engine; when it ends the model
\* is in the mode it was in on entry, and the events delivered were
\* EVAL_START, the four events of every evaluation batch in order, EVAL_END
C39_EvalFrame ==
    /\ [][EvalStep =>
            /\ UNCHANGED <<epoch, step, steps_per_epoch, iter, closed>>
            /\ batch_idx' = batch_idx
            /\ Delivered(lastEvent') /\ evBit' # evBit]_vars
    /\ [][EvalReturns =>
            /\ training' = restore_model_train
            /\ Append(evlog, lastEvent') =
                   ExpectedEvalEvents(eval_subset_num_batches)]_vars
    /\ [][(pc = "idle" /\ pc' \in EvalPcs) =>
            restore_model_train' = training /\ ~training']_vars

\* a pass over two batches or more is about to end; it was begun in the
\* middle of an epoch with the model in training mode
C39_Witness ==
    /\ pc = "EVAL_END"
    /\ eval_subset_num_batches >= 2
    /\ Len(evlog) = 1 + 4 * eval_subset_num_batches
    /\ restore_model_train
    /\ ~training
    /\ step > 0
    /\ batch_idx # 0
    /\ iter.set

====
